---- MODULE Spec2Model ----
(***************************************************************************)
(* A model of the jcc front-end parser (src/src/parser.cc, first           *)
(* translation unit of the file, lines 1-953) together with the AST        *)
(* classes of src/include/jcc.  The parser is a recursive-descent parser;  *)
(* every Parser method is an operator that maps a parser state record to   *)
(* a pair [p |-> parser state, v |-> returned value].  A fatal diagnostic  *)
(* (jcc_unreachable / jcc_unimplemented / a failed assert) aborts the      *)
(* process: it is modelled by p.st = "fatal", after which every operation  *)
(* leaves the parser state as it was at the abort.  A loop that never      *)
(* terminates is modelled by p.st = "hang".                                *)
(***************************************************************************)
EXTENDS Integers, Sequences, FiniteSets, TLC

VARIABLES src, ndebug, pc, parser, top_decls, emitter

vars == <<src, ndebug, pc, parser, top_decls, emitter>>

(***************************************************************************)
(* Bounds of the explored inputs.                                          *)
(***************************************************************************)
MaxOps == 3
MaxSpecs == 3
MaxVars == 3
MaxItems == 4
MaxFiles == 4

(***************************************************************************)
(* Tokens.  A token is [kind, str]; the lexer classifies a lexeme.         *)
(***************************************************************************)
Digits == {"0", "1", "2", "3", "4", "5", "6", "7", "8", "9", "10"}

KindOf(s) ==
  CASE s = "typedef" -> "Typedef"
    [] s = "static" -> "Static"
    [] s = "extern" -> "Extern"
    [] s = "inline" -> "Inline"
    [] s = "_Thread_local" -> "DashThreadLocal"
    [] s = "const" -> "Const"
    [] s = "auto" -> "Auto"
    [] s = "volatile" -> "Volatile"
    [] s = "register" -> "Register"
    [] s = "restrict" -> "Restrict"
    [] s = "_Noreturn" -> "DashNoReturn"
    [] s = "_Atomic" -> "DashAtmoic"
    [] s = "_Alignas" -> "DashAlignas"
    [] s = "_Bool" -> "DashBool"
    [] s = "_Complex" -> "DashComplex"
    [] s = "struct" -> "Struct"
    [] s = "union" -> "Union"
    [] s = "enum" -> "Enum"
    [] s = "void" -> "Void"
    [] s = "char" -> "Char"
    [] s = "short" -> "Short"
    [] s = "int" -> "Int"
    [] s = "long" -> "Long"
    [] s = "float" -> "Float"
    [] s = "double" -> "Double"
    [] s = "signed" -> "Signed"
    [] s = "unsigned" -> "Unsigned"
    [] s = "return" -> "Return"
    [] s = "break" -> "Break"
    [] s = "continue" -> "Continue"
    [] s = "if" -> "If"
    [] s = "else" -> "Else"
    [] s = "while" -> "While"
    [] s = "switch" -> "Switch"
    [] s = "case" -> "Case"
    [] s = "default" -> "Default"
    [] s = "do" -> "Do"
    [] s = "goto" -> "Goto"
    [] s = "for" -> "For"
    [] s = ";" -> "Semi"
    [] s = "," -> "Comma"
    [] s = "=" -> "Equal"
    [] s = "(" -> "LeftParen"
    [] s = ")" -> "RightParen"
    [] s = "{" -> "LeftBracket"
    [] s = "}" -> "RightBracket"
    [] s = "[" -> "LeftSquare"
    [] s = "]" -> "RightSquare"
    [] s = "*" -> "Star"
    [] s = "+" -> "Plus"
    [] s = "-" -> "Minus"
    [] s = "/" -> "Slash"
    [] s = "%" -> "Percent"
    [] s = "<" -> "Less"
    [] s = ">" -> "Greater"
    [] s = "<=" -> "LessEqual"
    [] s = ">=" -> "GreaterEqual"
    [] s = "==" -> "EqualEqual"
    [] s = "!=" -> "ExclaimEqual"
    [] s = "<<" -> "LeftShift"
    [] s = ">>" -> "RightShift"
    [] s = "&" -> "Ampersand"
    [] s = "|" -> "Pipe"
    [] s = "^" -> "Carret"
    [] s = "&&" -> "AmpersandAmpersand"
    [] s = "||" -> "PipePipe"
    [] s = "?" -> "Question"
    [] s = ":" -> "Colon"
    [] s = "++" -> "PlusPlus"
    [] s = "--" -> "MinusMinus"
    [] s = "+=" -> "PlusEqual"
    [] s = "-=" -> "MinusEqual"
    [] s = "*=" -> "StarEqual"
    [] s = "/=" -> "SlashEqual"
    [] s = "%=" -> "PercentEqual"
    [] s = "<<=" -> "LeftShiftEqual"
    [] s = ">>=" -> "RightShiftEqual"
    [] s = "&=" -> "AmpersandEqual"
    [] s = "^=" -> "CarretEqual"
    [] s = "|=" -> "PipeEqual"
    [] s = "->" -> "Arrow"
    [] s = "." -> "Period"
    [] s = "\"s\"" -> "StringLiteral"
    [] s \in Digits -> "NumericConstant"
    [] OTHER -> "Identifier"

Token(s) ==
  [kind |-> KindOf(s), str |-> s]

EofToken ==
  [kind |-> "Eof", str |-> ""]

(***************************************************************************)
(* Lexer::Lex: the next token of the source, Eof for ever at the end.      *)
(***************************************************************************)
LexAt(n) ==
  IF n <= Len(src) THEN Token(src[n]) ELSE EofToken

(***************************************************************************)
(* Types.  [k, unsig, sub, name]; sub holds the base of a pointer, the     *)
(* element of an array, <<return>> \o params of a function, the member     *)
(* types of a record.  NullType is the null Type pointer.                  *)
(***************************************************************************)
MkType(k, unsig, sub, name) ==
  [k |-> k, unsig |-> unsig, sub |-> sub, name |-> name]

NullType ==
  MkType("Null", FALSE, <<>>, "")

IntType ==
  MkType("Int", FALSE, <<>>, "")

CharType ==
  MkType("Char", FALSE, <<>>, "")

CreatePointerType(base) ==
  MkType("Pointer", FALSE, <<base>>, "")

CreateArrayType(elem) ==
  MkType("Array", FALSE, <<elem>>, "")

CreateFuncType(ret) ==
  MkType("Func", FALSE, <<ret>>, "")

CreateRecordType(k) ==
  MkType(k, FALSE, <<>>, "")

SetParams(ft, params) ==
  [ft EXCEPT !.sub = <<ft.sub[1]>> \o params]

GetReturnType(ft) ==
  IF ft.k = "Func" THEN ft.sub[1] ELSE NullType

GetParamTypes(ft) ==
  IF ft.k = "Func" THEN Tail(ft.sub) ELSE <<>>

(***************************************************************************)
(* Results of the parser operators.                                        *)
(***************************************************************************)
R(p, v) ==
  [p |-> p, v |-> v]

\* The value of a function of one argument: Let([x \in {e} |-> b]) is b with
\* x standing for the value of e, which is computed once.
Let(f) ==
  f[CHOOSE arg \in DOMAIN f : TRUE]

Ok(p) ==
  p.st = "ok"

Fatal(p, msg) ==
  IF Ok(p) THEN [p EXCEPT !.st = "fatal", !.err = msg] ELSE p

Hang(p) ==
  IF Ok(p) THEN [p EXCEPT !.st = "hang", !.err = "loop"] ELSE p

AddLog(p, e) ==
  IF Ok(p) THEN [p EXCEPT !.log = Append(@, e)] ELSE p

(***************************************************************************)
(* Parser primitives (parser.cc:69-110).                                   *)
(***************************************************************************)
CurrentToken(p) ==
  p.token_

\* A consume that always asks the lexer, whatever the cache holds.
ConsumeToken_AlwaysLex(p) ==
  IF ~Ok(p) THEN p
  ELSE [p EXCEPT !.token_ = LexAt(p.pos + 1), !.pos = p.pos + 1,
                 !.cache_ = <<>>]

ConsumeToken(p) ==
  IF ~Ok(p) THEN p
  ELSE IF p.cache_ # <<>>
       THEN [p EXCEPT !.token_ = p.cache_[1], !.cache_ = <<>>]
       ELSE [p EXCEPT !.token_ = LexAt(p.pos + 1), !.pos = p.pos + 1]

MustConsumeToken(p, expected) ==
  IF CurrentToken(p).kind = expected
  THEN ConsumeToken(p)
  ELSE Fatal(p, "MustConsumeToken() consumed unexpeted token!")

\* dropped records that a token held in the cache was overwritten.
NextToken(p) ==
  IF ~Ok(p) THEN R(p, EofToken)
  ELSE R([p EXCEPT !.cache_ = <<LexAt(p.pos + 1)>>, !.pos = p.pos + 1,
                   !.dropped = @ \/ p.cache_ # <<>>],
         LexAt(p.pos + 1))

\* A try_consume that consumes whatever the current token is.
TryConsumeToken_Always(p, expected) ==
  R(ConsumeToken(p), TRUE)

TryConsumeToken(p, expected) ==
  IF Ok(p) /\ CurrentToken(p).kind = expected
  THEN R(ConsumeToken(p), TRUE)
  ELSE R(p, FALSE)

RECURSIVE SkipUntilLoop(_, _)
SkipUntilLoop(p, kind) ==
  IF ~Ok(p) \/ CurrentToken(p).kind = kind THEN p
  ELSE IF CurrentToken(p).kind = "Eof" THEN Hang(p)
  ELSE SkipUntilLoop(ConsumeToken(p), kind)

SkipUntil(p, kind, skip_match) ==
  LET q == SkipUntilLoop(p, kind)
  IN IF Ok(q) /\ skip_match /\ CurrentToken(q).kind = kind
     THEN ConsumeToken(q)
     ELSE q

(***************************************************************************)
(* Scope stack.  A frame maps identifiers to types and to declarations;    *)
(* a frame carries the serial number of the enter that created it.        *)
(***************************************************************************)
OpenScopes(p) ==
  [i \in 1..Len(p.scopes) |-> p.scopes[i].id]

EnterScope(p) ==
  IF ~Ok(p) THEN p
  ELSE [p EXCEPT !.scopes = Append(@, [id |-> p.nscope + 1,
                                       types |-> <<>>, vars |-> <<>>]),
                 !.nscope = @ + 1,
                 !.log = Append(@, [ev |-> "enter", name |-> "", res |-> FALSE,
                                    open |-> OpenScopes(p),
                                    sid |-> p.nscope + 1])]

ExitScope(p) ==
  IF ~Ok(p) \/ p.scopes = <<>> THEN p
  ELSE [p EXCEPT !.scopes = SubSeq(@, 1, Len(@) - 1),
                 !.log = Append(@, [ev |-> "exit", name |-> "", res |-> FALSE,
                                    open |-> OpenScopes(p),
                                    sid |-> p.scopes[Len(p.scopes)].id])]

PushTypeAt(p, lvl, name, type) ==
  IF ~Ok(p) \/ lvl < 1 \/ lvl > Len(p.scopes) THEN p
  ELSE [p EXCEPT !.scopes[lvl].types =
                     Append(@, [name |-> name, type |-> type]),
                 !.log = Append(@, [ev |-> "pushtype", name |-> name,
                                    res |-> TRUE, open |-> OpenScopes(p),
                                    sid |-> p.scopes[lvl].id])]

PushType(p, name, type) ==
  PushTypeAt(p, Len(p.scopes), name, type)

FrameHas(entries, name) ==
  \E i \in 1..Len(entries) : entries[i].name = name

FrameGet(entries, name) ==
  entries[CHOOSE i \in 1..Len(entries) :
            /\ entries[i].name = name
            /\ \A j \in (i + 1)..Len(entries) : entries[j].name # name]

LookupType(p, name) ==
  IF \E l \in 1..Len(p.scopes) : FrameHas(p.scopes[l].types, name)
  THEN LET l == CHOOSE l \in 1..Len(p.scopes) :
                  /\ FrameHas(p.scopes[l].types, name)
                  /\ \A m \in (l + 1)..Len(p.scopes) :
                        ~FrameHas(p.scopes[m].types, name)
       IN FrameGet(p.scopes[l].types, name).type
  ELSE NullType

Lookup(p, name) ==
  IF \E l \in 1..Len(p.scopes) : FrameHas(p.scopes[l].vars, name)
  THEN LET l == CHOOSE l \in 1..Len(p.scopes) :
                  /\ FrameHas(p.scopes[l].vars, name)
                  /\ \A m \in (l + 1)..Len(p.scopes) :
                        ~FrameHas(p.scopes[m].vars, name)
       IN FrameGet(p.scopes[l].vars, name).decl
  ELSE 0

(***************************************************************************)
(* AST arena.  A node handle is an index into p.arena; 0 is nullptr.       *)
(* kids are the owned children, ref is the declaration a DeclRef names.    *)
(***************************************************************************)
MkNode(cls, op, name, type, kids) ==
  [cls |-> cls, op |-> op, name |-> name, type |-> type, kids |-> kids,
   args |-> <<>>, locals |-> <<>>, ref |-> 0]

NewNode(p, node) ==
  IF ~Ok(p) THEN R(p, 0)
  ELSE R([p EXCEPT !.arena = Append(@, node)], Len(p.arena) + 1)

NodeType(p, h) ==
  IF h \in 1..Len(p.arena) THEN p.arena[h].type ELSE NullType

\* Expr::GetType (expr.h:26-29): asserts a non-null type.
GetType(p, h) ==
  IF Ok(p) /\ NodeType(p, h) = NullType /\ ~ndebug
  THEN R(Fatal(p, "Expr's type can't be null!"), NullType)
  ELSE R(p, NodeType(p, h))

\* VarDecl::SetInit (decl.h:47).
SetInit(p, var, init) ==
  IF ~Ok(p) \/ var \notin 1..Len(p.arena) THEN p
  ELSE [p EXCEPT !.arena[var].kids = <<init>>]

(***************************************************************************)
(* DeclSpec: the specifier accumulator.  One storage-class field, one      *)
(* function-specifier field, the type-spec kind, width and sign, and the   *)
(* type (GetType / SetType).                                               *)
(***************************************************************************)
NewDeclSpec ==
  [scs |-> "Unspecified", fs |-> "Unspecified", atomic |-> FALSE,
   tsk |-> "Unspecified", width |-> "Unspecified", sign |-> "Unspecified",
   override |-> NullType, type |-> NullType]

SetStorageClassSpec(ds, scs) ==
  [ds EXCEPT !.scs = scs]

SetFunctionSpec(ds, fs) ==
  [ds EXCEPT !.fs = fs]

SetTypeSpecKind(ds, tsk) ==
  [ds EXCEPT !.tsk = tsk]

SetTypeSpecWidth(ds, w) ==
  [ds EXCEPT !.width = w]

SetTypeSpecSign(ds, s) ==
  [ds EXCEPT !.sign = s]

SetType(ds, type) ==
  [ds EXCEPT !.override = type, !.type = type]

IsTypedef(ds) ==
  ds.scs = "Typedef"

IsStatic(ds) ==
  ds.scs = "Static"

IsExtern(ds) ==
  ds.scs = "Extern"

IsThreadLocal(ds) ==
  ds.scs = "ThreadLocal"

IsInline(ds) ==
  ds.fs = "Inline"

\* The synthesis table: the type of a specifier bag, NullType with ok = FALSE
\* for a bag outside the table.
SynthesizeTable(ds) ==
  LET u == ds.sign = "Unsigned"
      T(k, us) == [ok |-> TRUE, type |-> MkType(k, us, <<>>, "")]
  IN CASE ds.override # NullType -> [ok |-> TRUE, type |-> ds.override]
       [] ds.tsk = "Void" -> T("Void", FALSE)
       [] ds.tsk = "Bool" -> T("Bool", FALSE)
       [] ds.tsk = "Char" -> T("Char", u)
       [] ds.tsk = "Float" -> T("Float", FALSE)
       [] ds.tsk = "Double" /\ ds.width = "Unspecified" -> T("Double", FALSE)
       [] ds.tsk = "Double" /\ ds.width = "Long" -> T("LongDouble", FALSE)
       [] ds.tsk \in {"Int", "Unspecified"} /\ ds.width = "Short" ->
            T("Short", u)
       [] ds.tsk \in {"Int", "Unspecified"} /\ ds.width = "Long" ->
            T("Long", u)
       [] ds.tsk \in {"Int", "Unspecified"} /\ ds.width = "LongLong" ->
            T("LongLong", u)
       [] ds.tsk = "Int" /\ ds.width = "Unspecified" -> T("Int", u)
       [] ds.tsk = "Unspecified" /\ ds.width = "Unspecified"
            /\ ds.sign # "Unspecified" -> T("Int", u)
       [] OTHER -> [ok |-> FALSE, type |-> NullType]

SynthesizeType(p, ds) ==
  LET t == SynthesizeTable(ds)
  IN IF t.ok THEN R(p, [ds EXCEPT !.type = t.type])
     ELSE R(Fatal(p, "invalid type specifier combination"), ds)

(***************************************************************************)
(* Declarator: the declared type and the declared identifier.              *)
(***************************************************************************)
NewDeclarator(ds) ==
  [type |-> ds.type, name |-> ""]

\* Declarator::GetTypeKind dereferences the type.
GetTypeKind(d) ==
  d.type.k

(***************************************************************************)
(* Parser::IsType (parser.cc:610-646).                                     *)
(***************************************************************************)
TypeKeywords ==
  {"Auto", "Char", "Const", "Default", "Double", "Enum", "Extern", "Float",
   "Inline", "Int", "Long", "Register", "Restrict", "Short", "Signed",
   "Static", "Struct", "Typedef", "Union", "Unsigned", "Void", "Volatile",
   "DashAlignas", "DashAtmoic", "DashBool", "DashComplex", "DashNoReturn",
   "DashThreadLocal"}

IsType(p, token) ==
  \/ token.kind \in TypeKeywords
  \/ LookupType(p, token.str) # NullType

\* The query together with its record in the history of the parse.
QueryIsType(p, token) ==
  R(AddLog(p, [ev |-> "istype", name |-> token.str,
               res |-> IsType(p, token), open |-> OpenScopes(p), sid |-> 0]),
    IsType(p, token))

(***************************************************************************)
(* Declaration specifiers and declarators (parser.cc:112-401).             *)
(***************************************************************************)
RECURSIVE ParseMembersLoop(_, _)
RECURSIVE ParseRecordType(_, _)
RECURSIVE ParseTypename(_)
RECURSIVE ParseDeclSpecLoop(_, _)
RECURSIVE ParseDeclarator(_, _)
RECURSIVE ParseTypeSuffix(_, _)
RECURSIVE ParseParamsLoop(_, _)
RECURSIVE ParseParams(_, _)
RECURSIVE ParseArrayDimensions(_, _)

\* parser.cc:160-194: a storage-class or function specifier.
StorageClassStep(p, ds) ==
  LET k == CurrentToken(p).kind
      ds1 == CASE k = "Typedef" -> SetStorageClassSpec(ds, "Typedef")
               [] k = "Static" -> SetStorageClassSpec(ds, "Static")
               [] k = "Extern" -> SetStorageClassSpec(ds, "Extern")
               [] k = "Inline" -> SetFunctionSpec(ds, "Inline")
               [] k = "DashThreadLocal" ->
                    SetStorageClassSpec(ds, "ThreadLocal")
               [] OTHER -> ds
  IN IF k \notin {"Typedef", "Static", "Extern", "Inline", "DashThreadLocal"}
     THEN R(p, ds)
     ELSE IF IsTypedef(ds1) /\ (IsStatic(ds1) \/ IsExtern(ds1)
                                 \/ IsInline(ds1) \/ IsThreadLocal(ds1))
     THEN R(Fatal(p, "typedef may not be used together with static, extern, inline, __thread or _Thread_local"), ds1)
     ELSE R(ConsumeToken(p), ds1)

\* parser.cc:196-201: keywords with no effect.
QualifierStep(p) ==
  IF CurrentToken(p).kind \in {"Const", "Auto", "Volatile", "Register",
                               "Restrict", "DashNoReturn"}
  THEN ConsumeToken(p)
  ELSE p

\* parser.cc:203-209: _Atomic.
AtomicStep(p, ds) ==
  IF Ok(p) /\ CurrentToken(p).kind = "DashAtmoic"
  THEN Let([t \in {ParseTypename(ConsumeToken(p))} |->
         R(ConsumeToken(t.p), [SetType(ds, t.v) EXCEPT !.atomic = TRUE])])
  ELSE R(p, ds)

\* parser.cc:229-272: the builtin type keywords and typedef names.
BuiltinStep(p, ds) ==
  LET k == CurrentToken(p).kind
  IN CASE k = "Void" -> R(p, SetTypeSpecKind(ds, "Void"))
       [] k = "DashBool" -> R(p, SetTypeSpecKind(ds, "Bool"))
       [] k = "Char" -> R(p, SetTypeSpecKind(ds, "Char"))
       [] k = "Short" -> R(p, SetTypeSpecWidth(ds, "Short"))
       [] k = "Int" -> R(p, SetTypeSpecKind(ds, "Int"))
       [] k = "Long" ->
            IF ds.width = "Long"
            THEN R(p, SetTypeSpecWidth(ds, "LongLong"))
            ELSE R(p, SetTypeSpecWidth(ds, "Long"))
       [] k = "Float" -> R(p, SetTypeSpecKind(ds, "Float"))
       [] k = "Double" -> R(p, SetTypeSpecKind(ds, "Double"))
       [] k = "Signed" -> R(p, SetTypeSpecSign(ds, "Signed"))
       [] k = "Unsigned" -> R(p, SetTypeSpecSign(ds, "Unsigned"))
       [] k = "Identifier" ->
            R(p, SetType(ds, LookupType(p, CurrentToken(p).str)))
       [] OTHER -> R(Fatal(p, "current token kind is not a type"), ds)

\* parser.cc:211-276: the rest of one iteration, after _Atomic.
TypeSpecStep(s3) ==
  LET k == CurrentToken(s3.p).kind
  IN IF ~Ok(s3.p) THEN s3
     ELSE IF k = "DashAlignas"
     THEN R(Fatal(s3.p, "unimplemented"), s3.v)
     ELSE IF k \in {"Struct", "Union"}
     THEN Let([rt \in {ParseRecordType(ConsumeToken(s3.p), k)} |->
            R(rt.p, SetType(s3.v, rt.v))])
     ELSE IF k \in {"Typedef", "Enum"}
     THEN R(Fatal(s3.p, "unimplemented"), s3.v)
     ELSE Let([s4 \in {BuiltinStep(s3.p, s3.v)} |->
          Let([s5 \in {SynthesizeType(ConsumeToken(s4.p), s4.v)} |->
            ParseDeclSpecLoop(s5.p, s5.v)])])

\* parser.cc:159-276: the loop of ParseDeclSpec.
ParseDeclSpecLoop(p, ds) ==
  IF ~Ok(p) THEN R(p, ds)
  ELSE Let([q0 \in {QueryIsType(p, CurrentToken(p))} |->
         IF ~q0.v THEN R(q0.p, ds)
         ELSE Let([s1 \in {StorageClassStep(q0.p, ds)} |->
                TypeSpecStep(AtomicStep(QualifierStep(s1.p), s1.v))])])

\* Index in src of the current token.
CurIndex(p) ==
  p.pos - Len(p.cache_)

ParseDeclSpec(p) ==
  Let([r \in {ParseDeclSpecLoop(p, NewDeclSpec)} |->
    IF ~Ok(r.p) THEN r
    ELSE R([r.p EXCEPT !.specs = Append(@, [from |-> CurIndex(p),
                                            to |-> CurIndex(r.p) - 1,
                                            scs |-> r.v.scs,
                                            fs |-> r.v.fs])],
           r.v)])

RECURSIVE PointerQualLoop(_)
PointerQualLoop(p) ==
  IF Ok(p) /\ CurrentToken(p).kind \in {"Const", "Volatile", "Restrict"}
  THEN PointerQualLoop(ConsumeToken(p))
  ELSE p

RECURSIVE ParsePointersLoop(_, _)
ParsePointersLoop(p, type) ==
  LET t == TryConsumeToken(p, "Star")
  IN IF t.v
     THEN ParsePointersLoop(PointerQualLoop(t.p), CreatePointerType(type))
     ELSE R(p, type)

ParsePointers(p, declarator) ==
  ParsePointersLoop(p, declarator.type)

ParseTypeSuffix(p, type) ==
  LET t1 == TryConsumeToken(p, "LeftParen")
      t2 == TryConsumeToken(p, "LeftSquare")
  IN IF t1.v THEN ParseParams(t1.p, type)
     ELSE IF t2.v THEN ParseArrayDimensions(t2.p, type)
     ELSE R(p, type)

ParseDeclarator(p, decl_spec) ==
  IF ~Ok(p) THEN R(p, NewDeclarator(decl_spec))
  ELSE
  Let([pt \in {ParsePointers(p, NewDeclarator(decl_spec))} |->
  Let([lp \in {TryConsumeToken(pt.p, "LeftParen")} |->
    IF lp.v
    THEN Let([inner \in {ParseDeclarator(lp.p, NewDeclSpec)} |->
         Let([sfx \in {ParseTypeSuffix(ConsumeToken(inner.p), pt.v)} |->
           ParseDeclarator(sfx.p, SetType(NewDeclSpec, sfx.v))])])
    ELSE IF CurrentToken(pt.p).kind = "Identifier"
    THEN Let([sfx \in {ParseTypeSuffix(ConsumeToken(pt.p), pt.v)} |->
           R(sfx.p, [type |-> sfx.v, name |-> CurrentToken(pt.p).str])])
    ELSE R(pt.p, NewDeclarator(decl_spec))])])

ParseTypename(p) ==
  Let([ds \in {ParseDeclSpec(p)} |->
  Let([d \in {ParseDeclarator(ds.p, ds.v)} |->
    R(d.p, d.v.type)])])

ParseMembersLoop(p, members) ==
  IF ~Ok(p) THEN R(p, members)
  ELSE
  Let([ds \in {ParseDeclSpec(p)} |->
  Let([d \in {ParseDeclarator(ds.p, ds.v)} |->
  Let([t \in {TryConsumeToken(MustConsumeToken(d.p, "Semi"),
                              "RightBracket")} |->
    IF t.v \/ ~Ok(t.p) THEN R(t.p, Append(members, d.v.type))
    ELSE ParseMembersLoop(t.p, Append(members, d.v.type))])])])

ParseMembers(p) ==
  ParseMembersLoop(p, <<>>)

ParseRecordType(p, kind) ==
  LET type == CreateRecordType(kind)
      named == CurrentToken(p).kind = "Identifier"
      t1 == IF named THEN [type EXCEPT !.name = CurrentToken(p).str] ELSE type
      p1 == IF named THEN ConsumeToken(p) ELSE p
      lb == TryConsumeToken(p1, "LeftBracket")
  IN IF lb.v
     THEN Let([m \in {ParseMembers(lb.p)} |->
            R(m.p, [t1 EXCEPT !.sub = m.v])])
     ELSE R(p1, t1)

\* parser.cc:361-372: the type a parameter is given.
ParamType(ds, d) ==
  IF d.type = NullType THEN ds.type
  ELSE IF GetTypeKind(d) = "Array" THEN CreatePointerType(d.type.sub[1])
  ELSE IF GetTypeKind(d) = "Func" THEN CreatePointerType(d.type)
  ELSE ds.type

\* parser.cc:359-381: one parameter per iteration.
ParseParamsLoop(p, params) ==
  IF ~Ok(p) THEN R(p, params)
  ELSE
  Let([ds \in {ParseDeclSpec(p)} |->
  Let([d \in {ParseDeclarator(ds.p, ds.v)} |->
  Let([t \in {TryConsumeToken(IF Ok(d.p) /\ d.v.type = NullType
                              THEN Fatal(d.p, "null dereference")
                              ELSE d.p,
                              "RightParen")} |->
    IF t.v \/ ~Ok(t.p) THEN R(t.p, Append(params, ParamType(ds.v, d.v)))
    ELSE ParseParamsLoop(MustConsumeToken(t.p, "Comma"),
                         Append(params, ParamType(ds.v, d.v)))])])])

ParseParams(p, type) ==
  LET function_type == CreateFuncType(type)
      isVoid == CurrentToken(p).kind = "Void"
      nt == IF isVoid THEN NextToken(p) ELSE R(p, EofToken)
  IN IF ~Ok(p) THEN R(p, function_type)
     ELSE IF (isVoid /\ nt.v.kind = "RightParen")
             \/ CurrentToken(nt.p).kind = "RightParen"
     THEN R(SkipUntil(nt.p, "RightParen", TRUE), function_type)
     ELSE Let([ps \in {ParseParamsLoop(nt.p, <<>>)} |->
            R(ps.p, SetParams(function_type, ps.v))])

RECURSIVE ArrayQualLoop(_)
ArrayQualLoop(p) ==
  IF Ok(p) /\ CurrentToken(p).kind \in {"Static", "Restrict"}
  THEN ArrayQualLoop(ConsumeToken(p))
  ELSE p

ParseArrayDimensions(p, type) ==
  LET q == ArrayQualLoop(p)
      t == TryConsumeToken(q, "RightParen")
  IN IF t.v
     THEN Let([arr_type \in {ParseTypeSuffix(t.p, type)} |->
            R(arr_type.p, CreateArrayType(arr_type.v))])
     ELSE R(Fatal(q, "unimplemented"), type)

(***************************************************************************)
(* Expressions (parser.cc:17-65, 403-406, 714-899).                        *)
(***************************************************************************)
BinOpPreLevel ==
  [Unknown |-> 0, Comma |-> 1, Assignment |-> 2, Conditional |-> 3,
   LogicalOr |-> 4, LogicalAnd |-> 5, InclusiveOr |-> 6, ExclusiveOr |-> 7,
   And |-> 8, Equality |-> 9, Relational |-> 10, Shift |-> 11,
   Additive |-> 12, Multiplicative |-> 13]

GetBinOpPrecedence(kind) ==
  CASE kind = "Comma" -> BinOpPreLevel.Comma
    [] kind \in {"Equal", "StarEqual", "SlashEqual", "PercentEqual",
                 "PlusEqual", "MinusEqual", "LeftShiftEqual",
                 "RightShiftEqual", "AmpersandEqual", "CarretEqual",
                 "PipeEqual"} -> BinOpPreLevel.Assignment
    [] kind = "Question" -> BinOpPreLevel.Conditional
    [] kind = "PipePipe" -> BinOpPreLevel.LogicalOr
    [] kind = "AmpersandAmpersand" -> BinOpPreLevel.LogicalAnd
    [] kind = "Pipe" -> BinOpPreLevel.InclusiveOr
    [] kind = "Carret" -> BinOpPreLevel.ExclusiveOr
    [] kind = "Ampersand" -> BinOpPreLevel.And
    [] kind = "EqualEqual" -> BinOpPreLevel.Equality
    [] kind \in {"Greater", "LessEqual", "Less", "GreaterEqual"} ->
         BinOpPreLevel.Relational
    [] kind = "LeftShift" -> BinOpPreLevel.Shift
    [] kind \in {"Plus", "Minus"} -> BinOpPreLevel.Additive
    [] kind \in {"Percent", "Slash", "Star"} -> BinOpPreLevel.Multiplicative
    [] OTHER -> BinOpPreLevel.Unknown

\* parser.cc:833-866; "" stands for the jcc_unimplemented() of the default.
ConvertOpToKind(kind) ==
  CASE kind = "Plus" -> "Plus"
    [] kind = "PlusEqual" -> "PlusEqual"
    [] kind = "Minus" -> "Minus"
    [] kind = "MinusEqual" -> "MinusEqual"
    [] kind = "Star" -> "Multiply"
    [] kind = "StarEqual" -> "MultiplyEqual"
    [] kind = "Slash" -> "Divide"
    [] kind = "SlashEqual" -> "DivideEqual"
    [] kind = "Greater" -> "Greater"
    [] kind = "GreaterEqual" -> "GreaterEqual"
    [] kind = "Less" -> "Less"
    [] kind = "LessEqual" -> "LessEqual"
    [] kind = "Equal" -> "Equal"
    [] kind = "EqualEqual" -> "EqualEqual"
    [] OTHER -> ""

StringLiteralType ==
  CreatePointerType(CharType)

RECURSIVE ParseCastExpr(_)
RECURSIVE ParsePostfixExpr(_, _)
RECURSIVE ParseExprListLoop(_, _)
RECURSIVE ParseRhsOfBinaryExpr(_, _, _)
RECURSIVE RhsLoop(_, _, _, _)

ParseAssignmentExpr(p) ==
  Let([lhs \in {ParseCastExpr(p)} |->
    ParseRhsOfBinaryExpr(lhs.p, lhs.v, BinOpPreLevel.Assignment)])

ParseExpr(p) ==
  Let([expr \in {ParseAssignmentExpr(p)} |->
    ParseRhsOfBinaryExpr(expr.p, expr.v, BinOpPreLevel.Assignment)])

ParseCastExpr(p) ==
  IF ~Ok(p) THEN R(p, 0)
  ELSE
  LET tok == CurrentToken(p)
      kind == tok.kind
  IN CASE kind = "NumericConstant" ->
            Let([n \in {NewNode(ConsumeToken(p),
                                MkNode("IntergerLiteral", "", tok.str,
                                       IntType, <<>>))} |->
              ParsePostfixExpr(n.p, n.v)])
       [] kind = "StringLiteral" ->
            Let([n \in {NewNode(p, MkNode("StringLiteral", "", tok.str,
                                          StringLiteralType, <<>>))} |->
              ParsePostfixExpr(ConsumeToken(n.p), n.v)])
       [] kind = "Char" ->
            Let([n \in {NewNode(p, MkNode("CharacterLiteral", "", tok.str,
                                          CharType, <<>>))} |->
              ParsePostfixExpr(ConsumeToken(n.p), n.v)])
       [] kind = "Ampersand" ->
            Let([result \in {ParseCastExpr(ConsumeToken(p))} |->
            Let([ty \in {GetType(result.p, result.v)} |->
              NewNode(ty.p, MkNode("UnaryExpr", "AddressOf", "", ty.v,
                                   <<result.v>>))])])
       [] kind = "Identifier" ->
            Let([q \in {ConsumeToken(p)} |->
              IF Lookup(q, tok.str) # 0
              THEN Let([n \in {NewNode(q, [MkNode("DeclRefExpr", "", tok.str,
                                                  NodeType(q, Lookup(q, tok.str)),
                                                  <<>>)
                                             EXCEPT !.ref = Lookup(q, tok.str)])}
                        |-> ParsePostfixExpr(n.p, n.v)])
              ELSE R(Fatal(q, "unimplemented"), 0)])
       [] OTHER -> R(Fatal(p, "Unexpeted token kind!"), 0)

ParseExprListLoop(p, expr_list) ==
  IF ~Ok(p) THEN R(p, expr_list)
  ELSE Let([e \in {ParseAssignmentExpr(p)} |->
         IF ~Ok(e.p) \/ CurrentToken(e.p).kind # "Comma"
         THEN R(e.p, Append(expr_list, e.v))
         ELSE ParseExprListLoop(MustConsumeToken(e.p, "Comma"),
                                Append(expr_list, e.v))])

ParseExprList(p) ==
  ParseExprListLoop(p, <<>>)

\* The callee of a call: As<DeclRefExpr>()->GetRefDecl()->As<FunctionDecl>().
CalleeFunction(p, lhs) ==
  IF lhs \in 1..Len(p.arena) /\ p.arena[lhs].cls = "DeclRefExpr"
     /\ p.arena[lhs].ref \in 1..Len(p.arena)
     /\ p.arena[p.arena[lhs].ref].cls = "FunctionDecl"
  THEN p.arena[lhs].ref
  ELSE 0

\* parser.cc:797-809: the CallExpr of callee lhs on the parsed arguments.
CreateCallExpr(args, lhs) ==
  LET fn == CalleeFunction(args.p, lhs)
      q1 == IF fn = 0 THEN Fatal(args.p, "null dereference") ELSE args.p
  IN NewNode(q1, [MkNode("CallExpr", "", "",
                         IF fn = 0 THEN NullType
                         ELSE GetReturnType(NodeType(q1, fn)),
                         <<lhs>>)
                    EXCEPT !.args = args.v])

ParsePostfixExpr(p, lhs) ==
  IF ~Ok(p) THEN R(p, lhs)
  ELSE
  LET kind == CurrentToken(p).kind
  IN CASE kind = "LeftParen" ->
            Let([q \in {ConsumeToken(p)} |->
            Let([n \in {CreateCallExpr(IF CurrentToken(q).kind # "RightParen"
                                       THEN ParseExprList(q) ELSE R(q, <<>>),
                                       lhs)} |->
              ParsePostfixExpr(MustConsumeToken(n.p, "RightParen"), n.v)])])
       [] kind \in {"PlusPlus", "MinusMinus"} ->
            Let([ty \in {GetType(ConsumeToken(p), lhs)} |->
            Let([n \in {NewNode(ty.p,
                                MkNode("UnaryExpr",
                                       IF kind = "PlusPlus"
                                       THEN "PostIncrement"
                                       ELSE "PostDecrement",
                                       "", ty.v, <<lhs>>))} |->
              ParsePostfixExpr(n.p, n.v)])])
       [] kind \in {"Arrow", "Period"} -> R(Fatal(p, "unimplemented"), lhs)
       [] OTHER -> R(p, lhs)

\* parser.cc:883-884.
IsRightAssoc_Never(this_tok_prec) ==
  FALSE

IsRightAssoc(this_tok_prec) ==
  \/ this_tok_prec = BinOpPreLevel.Conditional
  \/ this_tok_prec = BinOpPreLevel.Assignment

\* parser.cc:886-887: whether the right operand is extended by a recursive call.
NeedsRhsExtension_EqualOnly(this_tok_prec, next_tok_prec) ==
  this_tok_prec = next_tok_prec /\ IsRightAssoc(this_tok_prec)

NeedsRhsExtension(this_tok_prec, next_tok_prec) ==
  \/ this_tok_prec < next_tok_prec
  \/ (this_tok_prec = next_tok_prec /\ IsRightAssoc(this_tok_prec))

\* A BinaryExpr created without a type.
CreateBinaryExpr_NullType(rhs, op_tok, lhs) ==
  NewNode(rhs.p, MkNode("BinaryExpr", ConvertOpToKind(op_tok.kind), "",
                        NullType, <<lhs, rhs.v>>))

\* parser.cc:892-896: the BinaryExpr of op_tok on lhs and the right operand.
CreateBinaryExpr(rhs, op_tok, lhs) ==
  LET ty == GetType(rhs.p, lhs)
      opk == ConvertOpToKind(op_tok.kind)
      q == IF opk = "" THEN Fatal(ty.p, "unimplemented") ELSE ty.p
  IN NewNode(q, MkNode("BinaryExpr", opk, "", ty.v, <<lhs, rhs.v>>))

\* parser.cc:870-897: one operator per iteration.
RhsLoop(p, lhs, min_prec, next_tok_prec) ==
  IF ~Ok(p) \/ next_tok_prec < min_prec THEN R(p, lhs)
  ELSE
  Let([rhs0 \in {ParseCastExpr(ConsumeToken(p))} |->
    LET this_tok_prec == next_tok_prec
        next1 == GetBinOpPrecedence(CurrentToken(rhs0.p).kind)
        rec == NeedsRhsExtension(this_tok_prec, next1)
    IN Let([rhs \in {IF rec
                     THEN ParseRhsOfBinaryExpr(rhs0.p, rhs0.v, this_tok_prec)
                     ELSE rhs0} |->
       Let([n \in {CreateBinaryExpr(rhs, CurrentToken(p), lhs)} |->
         RhsLoop(n.p, n.v, min_prec,
                 IF rec THEN GetBinOpPrecedence(CurrentToken(rhs.p).kind)
                 ELSE next1)])])])

ParseRhsOfBinaryExpr(p, lhs, min_prec) ==
  RhsLoop(p, lhs, min_prec, GetBinOpPrecedence(CurrentToken(p).kind))

(***************************************************************************)
(* Statements, declarations and functions (parser.cc:408-712, 901-934).    *)
(***************************************************************************)
RECURSIVE ParseStatement(_)
RECURSIVE ParseCompoundStmt(_)
RECURSIVE CompoundLoop(_, _)
RECURSIVE ParseFunction(_, _)

\* CompoundStatement::AddStmt (stmt.h:56).
AddStmt(p, stmt, child) ==
  IF ~Ok(p) \/ stmt \notin 1..Len(p.arena) THEN p
  ELSE [p EXCEPT !.arena[stmt].kids = Append(@, child)]

\* FunctionDecl::AddLocals on the current function.
AddLocals(p, decls) ==
  IF ~Ok(p) THEN p
  ELSE IF p.cur_func \notin 1..Len(p.arena)
  THEN Fatal(p, "null dereference")
  ELSE [p EXCEPT !.arena[p.cur_func].locals = @ \o decls]

StmtNode(p, cls, op, name, kids) ==
  NewNode(p, MkNode(cls, op, name, NullType, kids))

ParseReturnStmt(p) ==
  IF TryConsumeToken(p, "Semi").v
  THEN StmtNode(TryConsumeToken(p, "Semi").p, "ReturnStatement", "", "", <<0>>)
  ELSE Let([e \in {ParseExpr(p)} |->
         StmtNode(SkipUntil(e.p, "Semi", TRUE), "ReturnStatement", "", "",
                  <<e.v>>)])

ParseIfStmt(p) ==
  Let([c \in {ParseExpr(MustConsumeToken(p, "LeftParen"))} |->
  Let([then \in {ParseStatement(MustConsumeToken(c.p, "RightParen"))} |->
  Let([t \in {TryConsumeToken(then.p, "Else")} |->
  Let([else_stmt \in {IF t.v THEN ParseStatement(t.p) ELSE R(then.p, 0)} |->
    StmtNode(else_stmt.p, "IfStatement", "", "",
             <<c.v, then.v, else_stmt.v>>)])])])])

ParseDoStmt(p) ==
  Let([body \in {ParseStatement(p)} |->
  Let([c \in {ParseExpr(MustConsumeToken(MustConsumeToken(body.p, "While"),
                                         "LeftParen"))} |->
    StmtNode(MustConsumeToken(MustConsumeToken(c.p, "RightParen"), "Semi"),
             "DoStatement", "", "", <<c.v, body.v>>)])])

ParseWhileStmt(p) ==
  Let([c \in {ParseExpr(MustConsumeToken(p, "LeftParen"))} |->
  Let([body \in {ParseStatement(MustConsumeToken(c.p, "RightParen"))} |->
    StmtNode(body.p, "WhileStatement", "", "", <<c.v, body.v>>)])])

ParseSwitchStmt(p) ==
  Let([c \in {ParseExpr(MustConsumeToken(p, "LeftParen"))} |->
  Let([body \in {ParseCompoundStmt(
                   MustConsumeToken(MustConsumeToken(c.p, "RightParen"),
                                    "LeftBracket"))} |->
    StmtNode(body.p, "SwitchStatement", "", "", <<c.v, body.v>>)])])

ParseCaseStmt(p, is_default) ==
  Let([stmt \in {ParseStatement(
                   MustConsumeToken(IF is_default THEN p ELSE ConsumeToken(p),
                                    "Colon"))} |->
    StmtNode(stmt.p, "CaseStatement",
             IF is_default THEN "default" ELSE "case",
             IF is_default THEN "" ELSE CurrentToken(p).str,
             <<stmt.v>>)])

ParseBreakStmt(p) ==
  StmtNode(MustConsumeToken(p, "Semi"), "BreakStatement", "", "", <<>>)

ParseContinueStmt(p) ==
  StmtNode(MustConsumeToken(p, "Semi"), "ContinueStatement", "", "", <<>>)

ParseForStmt(p) ==
  Let([init \in {ParseStatement(MustConsumeToken(p, "LeftParen"))} |->
  Let([condition \in {ParseStatement(init.p)} |->
  Let([increment \in {ParseExpr(condition.p)} |->
  Let([body \in {ParseCompoundStmt(
                   MustConsumeToken(
                     MustConsumeToken(increment.p, "RightParen"),
                     "LeftBracket"))} |->
    StmtNode(body.p, "ForStatement", "", "",
             <<init.v, condition.v, increment.v, body.v>>)])])])])

ParseExprStmt(p) ==
  IF TryConsumeToken(p, "Semi").v
  THEN R(Fatal(TryConsumeToken(p, "Semi").p, "unimplemented"), 0)
  ELSE Let([e \in {ParseExpr(p)} |->
         StmtNode(MustConsumeToken(e.p, "Semi"), "ExprStatement", "", "",
                  <<e.v>>)])

ParseStatement(p) ==
  IF ~Ok(p) THEN R(p, 0)
  ELSE
  LET kind == CurrentToken(p).kind
      q == ConsumeToken(p)
  IN CASE kind = "Return" -> ParseReturnStmt(q)
       [] kind = "Break" -> ParseBreakStmt(q)
       [] kind = "Continue" -> ParseContinueStmt(q)
       [] kind = "If" -> ParseIfStmt(q)
       [] kind = "While" -> ParseWhileStmt(q)
       [] kind = "Switch" -> ParseSwitchStmt(q)
       [] kind = "Case" -> ParseCaseStmt(q, FALSE)
       [] kind = "Default" -> ParseCaseStmt(q, TRUE)
       [] kind = "Do" -> ParseDoStmt(q)
       [] kind = "Goto" -> R(Fatal(q, "unimplemented"), 0)
       [] kind = "For" -> ParseForStmt(q)
       [] kind = "LeftBracket" -> ParseCompoundStmt(q)
       [] OTHER -> ParseExprStmt(p)

\* VarDecl::Create for every element of a list of names.
RECURSIVE CreateVars(_, _, _, _)
CreateVars(p, types, names, acc) ==
  IF types = <<>> THEN R(p, acc)
  ELSE Let([n \in {NewNode(p, MkNode("VarDecl", "", Head(names), Head(types),
                                     <<0>>))} |->
         CreateVars(n.p, Tail(types), Tail(names), Append(acc, n.v))])

\* parser.cc:565-575: each Var is named after its type.
CreateParams(p, type) ==
  CreateVars(p, GetParamTypes(type),
             [i \in 1..Len(GetParamTypes(type)) |->
                GetParamTypes(type)[i].name],
             <<>>)

\* parser.cc:691-701: the optional further declarators.
RECURSIVE DeclaratorListLoop(_, _, _)
DeclaratorListLoop(p, declarator, vs) ==
  IF ~Ok(p) \/ CurrentToken(p).kind \in {"Semi", "Equal"} THEN R(p, vs)
  ELSE Let([q \in {MustConsumeToken(p, "Comma")} |->
         IF Ok(q) /\ CurrentToken(q).kind = "Identifier"
         THEN Let([n \in {NewNode(q, MkNode("VarDecl", "",
                                            CurrentToken(q).str,
                                            declarator.type, <<0>>))} |->
                DeclaratorListLoop(MustConsumeToken(n.p, "Identifier"),
                                   declarator, Append(vs, n.v))])
         ELSE DeclaratorListLoop(q, declarator, vs)])

RECURSIVE SetInitAll(_, _, _)
SetInitAll(p, vs, init) ==
  IF vs = <<>> THEN p
  ELSE SetInitAll(SetInit(p, Head(vs), init), Tail(vs), init)

ParseDeclaration(p, declarator) ==
  Let([first \in {NewNode(p, MkNode("VarDecl", "", declarator.name,
                                    declarator.type, <<0>>))} |->
  Let([lst \in {DeclaratorListLoop(first.p, declarator, <<first.v>>)} |->
  Let([eq \in {TryConsumeToken(lst.p, "Equal")} |->
    IF eq.v
    THEN Let([init \in {ParseAssignmentExpr(eq.p)} |->
           R(MustConsumeToken(SetInitAll(init.p, lst.v, init.v), "Semi"),
             lst.v)])
    ELSE R(MustConsumeToken(lst.p, "Semi"), lst.v)])])])

\* parser.cc:921-934.
RECURSIVE ParseTypedefLoop(_, _)
ParseTypedefLoop_FileScope(p, decl_spec) ==
  IF ~Ok(p) \/ CurrentToken(p).kind = "Semi" THEN p
  ELSE LET q == IF CurrentToken(p).kind = "Comma" THEN ConsumeToken(p) ELSE p
       IN IF CurrentToken(q).kind # "Identifier" /\ ~ndebug
          THEN Fatal(q, "Not an identifier in parsing typedef?")
          ELSE IF CurrentToken(q).kind = "Eof" THEN Hang(q)
          ELSE ParseTypedefLoop(
                 ConsumeToken(PushTypeAt(q, 1, CurrentToken(q).str,
                                         decl_spec.type)),
                 decl_spec)

ParseTypedefLoop(p, decl_spec) ==
  IF ~Ok(p) \/ CurrentToken(p).kind = "Semi" THEN p
  ELSE LET q == IF CurrentToken(p).kind = "Comma" THEN ConsumeToken(p) ELSE p
       IN IF CurrentToken(q).kind # "Identifier" /\ ~ndebug
          THEN Fatal(q, "Not an identifier in parsing typedef?")
          ELSE IF CurrentToken(q).kind = "Eof" THEN Hang(q)
          ELSE ParseTypedefLoop(
                 ConsumeToken(PushType(q, CurrentToken(q).str,
                                       decl_spec.type)),
                 decl_spec)

ParseTypedef(p, decl_spec) ==
  MustConsumeToken(ParseTypedefLoop(p, decl_spec), "Semi")

\* parser.cc:669-677: the body of the function, or the `;` of a prototype.
ParseFunctionBody(q1, function) ==
  Let([lb \in {TryConsumeToken(q1, "LeftBracket")} |->
    IF lb.v
    THEN Let([body \in {ParseCompoundStmt(lb.p)} |->
           IF Ok(body.p)
           THEN [body.p EXCEPT !.arena[function].kids = <<body.v>>]
           ELSE body.p])
    ELSE IF CurrentToken(q1).kind = "Semi" THEN q1
    ELSE Fatal(q1, "error when parsing function body!")])

ParseFunction(p, declarator) ==
  LET func_name == declarator.name
      func_type == declarator.type
  IN IF ~Ok(p) THEN R(p, 0)
     ELSE IF func_name = ""
     THEN R(Fatal(p, "function name is missing!"), 0)
     ELSE IF Lookup(p, func_name) # 0
     THEN R(Fatal(p, "function redefinition!"), 0)
     ELSE
     Let([function \in {NewNode(p, MkNode("FunctionDecl", "", func_name,
                                          func_type, <<0>>))} |->
     Let([params \in
            {CreateParams(
               EnterScope([function.p EXCEPT !.cur_func = function.v]),
               func_type)} |->
       R(ExitScope(
           ParseFunctionBody(
             IF Ok(params.p)
             THEN [params.p EXCEPT !.arena[function.v].args = params.v]
             ELSE params.p,
             function.v)),
         function.v)])])

\* parser.cc:587-600: a declaration or a typedef in a compound statement.
CompoundDecl(p, stmt) ==
  Let([ds \in {ParseDeclSpec(p)} |->
    IF ~Ok(ds.p) THEN ds.p
    ELSE IF IsTypedef(ds.v)
    THEN CompoundLoop(ParseTypedef(ds.p, ds.v), stmt)
    ELSE
    Let([d \in {ParseDeclarator(ds.p, ds.v)} |->
      IF ~Ok(d.p) THEN d.p
      ELSE IF d.v.type = NullType
      THEN Fatal(d.p, "null dereference")
      ELSE IF GetTypeKind(d.v) = "Func"
      THEN Let([f \in {ParseFunction(d.p, d.v)} |->
           Let([s \in {StmtNode(f.p, "DeclStatement", "", "", <<f.v>>)} |->
             CompoundLoop(AddStmt(s.p, stmt, s.v), stmt)])])
      ELSE Let([decls \in {ParseDeclaration(d.p, d.v)} |->
           Let([s \in {StmtNode(decls.p, "DeclStatement", "", "",
                                decls.v)} |->
             CompoundLoop(AddLocals(AddStmt(s.p, stmt, s.v), decls.v),
                          stmt)])])])])

\* A loop that takes every item on a type-token for a declaration, whatever
\* the token behind it.
CompoundLoop_NoColonTest(p, stmt) ==
  IF ~Ok(p) \/ CurrentToken(p).kind = "RightBracket" THEN p
  ELSE
  Let([it \in {QueryIsType(p, CurrentToken(p))} |->
  Let([nt \in {IF it.v THEN NextToken(it.p) ELSE R(it.p, EofToken)} |->
    IF it.v
    THEN CompoundDecl(nt.p, stmt)
    ELSE Let([s \in {ParseStatement(nt.p)} |->
           CompoundLoop(AddStmt(s.p, stmt, s.v), stmt)])])])

\* parser.cc:583-605: one item of a compound statement per iteration.
CompoundLoop(p, stmt) ==
  IF ~Ok(p) \/ CurrentToken(p).kind = "RightBracket" THEN p
  ELSE
  Let([it \in {QueryIsType(p, CurrentToken(p))} |->
  Let([nt \in {IF it.v THEN NextToken(it.p) ELSE R(it.p, EofToken)} |->
    IF it.v /\ nt.v.kind # "Colon"
    THEN CompoundDecl(nt.p, stmt)
    ELSE Let([s \in {ParseStatement(nt.p)} |->
           CompoundLoop(AddStmt(s.p, stmt, s.v), stmt)])])])

\* A compound statement whose scope is entered and never left.
ParseCompoundStmt_NoExit(p) ==
  Let([stmt \in {StmtNode(p, "CompoundStatement", "", "", <<>>)} |->
    R(ConsumeToken(CompoundLoop(EnterScope(stmt.p), stmt.v)), stmt.v)])

ParseCompoundStmt(p) ==
  Let([stmt \in {StmtNode(p, "CompoundStatement", "", "", <<>>)} |->
    R(ExitScope(ConsumeToken(CompoundLoop(EnterScope(stmt.p), stmt.v))),
      stmt.v)])

ParseFunctionOrVar(p, decl_spec) ==
  IF TryConsumeToken(p, "Semi").v \/ ~Ok(p)
  THEN R(TryConsumeToken(p, "Semi").p, <<>>)
  ELSE Let([d \in {ParseDeclarator(p, decl_spec)} |->
         IF ~Ok(d.p) THEN R(d.p, <<>>)
         ELSE IF d.v.type = NullType
         THEN R(Fatal(d.p, "null dereference"), <<>>)
         ELSE IF GetTypeKind(d.v) = "Func"
         THEN Let([f \in {ParseFunction(d.p, d.v)} |-> R(f.p, <<f.v>>)])
         ELSE ParseDeclaration(d.p, d.v)])

(***************************************************************************)
(* Inputs: the token sequences the parser is run on.                       *)
(***************************************************************************)
Operands == <<"1", "2", "3", "4", "5", "6">>

VarNames == <<"x", "y", "z", "w", "v">>

ExprOps == {"=", "+=", "+", "-", "*", "<", "==", ","}

SpecAlpha ==
  {"typedef", "static", "extern", "inline", "_Thread_local", "int", "const"}

RECURSIVE Flatten(_)
Flatten(ss) ==
  IF ss = <<>> THEN <<>> ELSE Head(ss) \o Flatten(Tail(ss))

InBody(toks) ==
  <<"int", "f", "(", ")", "{">> \o toks \o <<"}">>

\* operand op operand ... op operand
ExprToks(ops) ==
  <<Operands[1]>>
    \o Flatten([i \in 1..Len(ops) |-> <<ops[i], Operands[i + 1]>>])

ExprInputs ==
  {InBody(ExprToks(ops) \o <<";">>) :
     ops \in UNION {[1..n -> ExprOps] : n \in 0..MaxOps}}

SpecInputs ==
  {specs \o <<"x", ";">> :
     specs \in UNION {[1..n -> SpecAlpha] : n \in 1..MaxSpecs}}

\* int x [= 1], y [= 2], ... ;
DeclToks(inits) ==
  <<"int">>
    \o Flatten([i \in 1..Len(inits) |->
                  (IF i > 1 THEN <<",">> ELSE <<>>) \o <<VarNames[i]>>
                    \o (IF inits[i] THEN <<"=", Operands[i]>> ELSE <<>>)])
    \o <<";">>

DeclInputs ==
  LET ds == {DeclToks(inits) :
               inits \in UNION {[1..n -> BOOLEAN] : n \in 1..MaxVars}}
  IN ds \cup {InBody(d) : d \in ds}

ItemAlpha ==
  {<<"typedef", "int", "T", ";">>, <<"T", "x", ";">>, <<"{">>, <<"}">>,
   <<";">>}

ScopeInputs ==
  LET bodies == {Flatten(items) :
                   items \in UNION {[1..n -> ItemAlpha] : n \in 0..MaxItems}}
  IN bodies \cup {InBody(b) : b \in bodies}

FuncInputs ==
  {<<"int", "main", "(", "void", ")", "{", "return", "0", ";", "}">>,
   <<"int", "f", "(", ")", "{", "}", "int", "f", "(", ")", "{", "}">>,
   <<"int", "f", "(", ")", ";", "int", "f", "(", ")", "{", "}">>,
   <<"int", "f", "(", ")", "{", "}", "int", "g", "(", ")", "{", "}">>,
   <<"int", "f", "(", "int", "a", ")", "{", "return", "a", ";", "}">>,
   <<"int", "f", "(", "int", "a", ")", "{", "}">>,
   <<"int", "f", "(", "int", "a", ",", "char", "b", ")", "{", "}">>,
   <<"typedef", "unsigned", "int", "U", ";", "U", "f", "(", "U", "a", ")",
     "{", "return", "a", "+", "1", ";", "}">>,
   <<"int", "x", ";", "int", "g", "(", ")", "{", "return", "x", ";", "}">>,
   <<"int", "x", ";", "int", "y", "=", "x", ";">>,
   <<"int", "g", "(", ")", "{", "int", "x", ";", "x", ";", "}">>,
   <<"int", "g", "(", ")", "{", "int", "x", ";", "{", "x", ";", "}", "}">>,
   <<"int", "f", "(", ")", "{", "}", "int", "g", "(", ")", "{", "f", "(",
     ")", ";", "}">>,
   <<"int", "f", "(", ")", "{", "f", "(", ")", ";", "}">>,
   <<"int", "g", "(", ")", "{", "int", "f", "(", ")", "{", "}", "int", "f",
     "(", ")", "{", "}", "}">>}

NestedTypedefInput ==
  InBody(<<"{", "typedef", "int", "T", ";", "{", "T", "x", ";", "}", "}",
           "T", "x", ";">>)

\* Declarations with pointer, parenthesised, array and function declarators
\* and with width specifiers.
DeclaratorInputs ==
  {<<"int", "(", "*", "p", ")", "[", "10", "]", ";">>,
   <<"int", "*", "p", "[", "10", "]", ";">>,
   <<"int", "(", "*", "p", ")", "(", ")", ";">>,
   <<"int", "(", "*", "p", ")", ";">>,
   <<"int", "*", "p", ";">>,
   <<"int", "a", "[", "]", ";">>,
   <<"int", "a", "[", ")", ";">>,
   <<"int", "f", "(", "int", "*", "p", ")", ";">>,
   <<"int", "f", "(", "char", "c", ",", "int", "*", "p", ")", ";">>,
   <<"int", "f", "(", "int", "a", ",", "char", "b", ",", "long", "c", ")",
     ";">>,
   <<"int", "f", "(", "int", "a", "[", "]", ")", ";">>,
   <<"int", "f", "(", "int", "a", "[", ")", ")", ";">>,
   <<"int", "f", "(", "int", "g", "(", ")", ")", ";">>,
   <<"long", "x", ";">>,
   <<"long", "long", "x", ";">>,
   <<"long", "long", "long", "x", ";">>,
   <<"short", "long", "x", ";">>,
   <<"long", "short", "x", ";">>,
   <<"unsigned", "long", "long", "x", ";">>,
   <<"long", "double", "x", ";">>,
   <<"short", "double", "x", ";">>,
   <<"long", "char", "x", ";">>}

\* The operator tokens of the precedence table and the prefix operators.
TableOps ==
  {",", "=", "*=", "/=", "%=", "+=", "-=", "<<=", ">>=", "&=", "^=", "|=",
   "?", "||", "&&", "|", "^", "&", "==", "!=", "<", ">", "<=", ">=", "<<",
   ">>", "+", "-", "*", "/", "%"}

PrefixOps ==
  {"*", "+", "-", "++", "--", "&"}

\* Expression statements with one operator, for statements, and bodies with
\* typedef names, switch labels, calls and a return without its semicolon.
StmtInputs ==
  {InBody(<<"1", op, "2", ";">>) : op \in TableOps}
    \cup {InBody(<<op, "1", ";">>) : op \in PrefixOps}
    \cup {InBody(<<"for", "(", "1", ";", "2", ";", "3", ")", "{", "4", ";",
                   "}">>),
          InBody(<<"for", "(", "1", ";", "2", ";", ")", "{", "4", ";", "}">>),
          InBody(<<"for", "(", "1", ";", "2", ";", "3", ")", "4", ";">>),
          InBody(<<"for", "(", "1", ";", "2", ";", ")", "4", ";">>)}
    \cup {InBody(<<"return", "0">>),
          InBody(<<"typedef", "int", "T", ";", "T", "T", ";">>),
          InBody(<<"typedef", "int", "T", ";", "T", "int", "x", ";">>),
          InBody(<<"typedef", "int", "T", ",", "U", ";", "T", "U", ";">>),
          InBody(<<"switch", "(", "1", ")", "{", "default", ":", "2", ";",
                   "}">>),
          InBody(<<"switch", "(", "1", ")", "{", "case", "1", ":", "2", ";",
                   "default", ":", "3", ";", "}">>),
          InBody(<<"int", "x", ";", "1", ";", "int", "y", ";">>),
          InBody(<<"1", "(", ")", ";">>),
          InBody(<<"1", "(", "2", ",", "3", ")", ";">>),
          <<"int", "f", "(", ")", "{", "}", "int", "g", "(", ")", "{", "f",
            "(", ")", "(", ")", ";", "}">>}
    \cup {InBody(Flatten(items)) :
            items \in UNION {[1..n -> {<<"int", "x", ";">>, <<"1", ";">>,
                                       <<"default", ":", "2", ";">>}] :
                               n \in 0..MaxItems}}

Inputs ==
  ExprInputs \cup SpecInputs \cup DeclInputs \cup ScopeInputs \cup FuncInputs
    \cup {NestedTypedefInput} \cup DeclaratorInputs \cup StmtInputs

(***************************************************************************)
(* Parser::ParseTranslateUnit (parser.cc:936-952) as a state machine.      *)
(***************************************************************************)
InitParser ==
  [pos |-> 1, token_ |-> LexAt(1), cache_ |-> <<>>, scopes |-> <<>>,
   nscope |-> 0, arena |-> <<>>, cur_func |-> 0, st |-> "ok", err |-> "",
   log |-> <<>>, specs |-> <<>>, dropped |-> FALSE]

Init ==
  /\ src \in Inputs
  /\ ndebug \in BOOLEAN
  /\ pc = "start"
  /\ parser = InitParser
  /\ top_decls = <<>>
  /\ emitter = [files |-> <<>>, closes |-> <<>>, written |-> {},
                late |-> FALSE]

\* parser.cc:941-948: one top-level item.
TranslateUnitItem(p) ==
  Let([ds \in {ParseDeclSpec(p)} |->
    ParseFunctionOrVar(IF Ok(ds.p) /\ IsTypedef(ds.v)
                       THEN ParseTypedef(ds.p, ds.v)
                       ELSE ds.p,
                       ds.v)])

\* parser.cc:937: the file scope.
EnterFileScope ==
  /\ pc = "start"
  /\ parser' = EnterScope(parser)
  /\ pc' = "loop"
  /\ UNCHANGED <<src, ndebug, top_decls, emitter>>

TopLevelItem ==
  /\ pc = "loop"
  /\ CurrentToken(parser).kind # "Eof"
  /\ \E r \in {TranslateUnitItem(parser)} :
       /\ parser' = r.p
       /\ top_decls' = IF Ok(r.p) THEN top_decls \o r.v ELSE top_decls
       /\ pc' = IF Ok(r.p) THEN "loop"
                ELSE IF r.p.st = "fatal" THEN "abort" ELSE "hang"
  /\ UNCHANGED <<src, ndebug, emitter>>

\* parser.cc:951-952: return, leaving the file scope.
ReturnTopDecls ==
  /\ pc = "loop"
  /\ CurrentToken(parser).kind = "Eof"
  /\ parser' = ExitScope(parser)
  /\ pc' = "done"
  /\ UNCHANGED <<src, ndebug, top_decls, emitter>>

Next ==
  \/ EnterFileScope
  \/ TopLevelItem
  \/ ReturnTopDecls

Spec ==
  Init /\ [][Next]_vars

(***************************************************************************)
(* The token cursor on its own: NextToken and ConsumeToken (parser.cc:     *)
(* 71-93) called in any order on a freshly constructed parser.  parser.pos *)
(* counts the calls of Lexer::Lex; pc names the call that returned last.   *)
(***************************************************************************)
LookaheadInit ==
  /\ src \in FuncInputs \cup DeclaratorInputs
  /\ ndebug = FALSE
  /\ pc = "start"
  /\ parser = InitParser
  /\ top_decls = <<>>
  /\ emitter = [files |-> <<>>, closes |-> <<>>, written |-> {},
                late |-> FALSE]

\* Parser::NextToken (parser.cc:89-93), until the lexer is at the end.
Peek ==
  /\ Ok(parser)
  /\ parser.pos <= Len(src)
  /\ parser' = NextToken(parser).p
  /\ pc' = "peeked"
  /\ UNCHANGED <<src, ndebug, top_decls, emitter>>

\* Parser::ConsumeToken (parser.cc:71-79).
Consume ==
  /\ Ok(parser)
  /\ parser.pos <= Len(src) \/ parser.cache_ # <<>>
  /\ parser' = ConsumeToken(parser)
  /\ pc' = "consumed"
  /\ UNCHANGED <<src, ndebug, top_decls, emitter>>

\* Parser::TryConsumeToken (parser.cc:95-101) on a kind of the input; pc
\* keeps the kind asked for and the value returned.
TryConsume ==
  /\ Ok(parser)
  /\ parser.pos <= Len(src) \/ parser.cache_ # <<>>
  /\ \E expected \in {KindOf(src[i]) : i \in 1..Len(src)} :
       \E r \in {TryConsumeToken(parser, expected)} :
         /\ parser' = r.p
         /\ pc' = "try " \o expected
                    \o (IF r.v THEN " true" ELSE " false")
  /\ UNCHANGED <<src, ndebug, top_decls, emitter>>

\* Parser::MustConsumeToken (parser.cc:81-87) on a kind of the input.
Expect ==
  /\ Ok(parser)
  /\ parser.pos <= Len(src) \/ parser.cache_ # <<>>
  /\ \E expected \in {KindOf(src[i]) : i \in 1..Len(src)} :
       /\ parser' = MustConsumeToken(parser, expected)
       /\ pc' = "expect " \o expected
  /\ UNCHANGED <<src, ndebug, top_decls, emitter>>

LookaheadNext ==
  \/ Peek
  \/ Consume
  \/ TryConsume
  \/ Expect

LookaheadSpec ==
  LookaheadInit /\ [][LookaheadNext]_vars

(***************************************************************************)
(* The output file of the emitter (codegen.h).  emitter.files holds the    *)
(* File objects in order of construction: data_ is the FILE handle, 0 for  *)
(* nullptr, live is false once the destructor has run, and owner marks the *)
(* member file_ of a CodeGen.  emitter.closes[h] counts the calls of       *)
(* fclose on handle h, emitter.written holds the handles written while     *)
(* open, and emitter.late records a write to a closed handle.              *)
(***************************************************************************)
EmitterInit ==
  /\ src = <<>>
  /\ ndebug \in BOOLEAN
  /\ pc = "emit"
  /\ parser = InitParser
  /\ top_decls = <<>>
  /\ emitter = [files |-> <<>>, closes |-> <<>>, written |-> {},
                late |-> FALSE]

\* codegen.h:66-68 and 93: a CodeGen is constructed, its member file_ opens
\* the file; fopen gives a new handle or nullptr.
NewCodeGen ==
  /\ pc = "emit"
  /\ Len(emitter.files) < MaxFiles
  /\ \E opened \in BOOLEAN :
       emitter' =
         [emitter EXCEPT
            !.files = Append(@, [data_ |-> IF opened
                                           THEN Len(emitter.closes) + 1
                                           ELSE 0,
                                 live |-> TRUE, owner |-> TRUE]),
            !.closes = IF opened THEN Append(@, 0) ELSE @]
  /\ UNCHANGED <<src, ndebug, pc, parser, top_decls>>

\* codegen.h:95: GetFile returns file_ by value; File declares no copy
\* constructor, so the copy holds the same data_.
GetFile ==
  /\ pc = "emit"
  /\ Len(emitter.files) < MaxFiles
  /\ \E c \in 1..Len(emitter.files) :
       /\ emitter.files[c].live
       /\ emitter.files[c].owner
       /\ emitter' =
            [emitter EXCEPT
               !.files = Append(@, [data_ |-> emitter.files[c].data_,
                                    live |-> TRUE, owner |-> FALSE])]
  /\ UNCHANGED <<src, ndebug, pc, parser, top_decls>>

\* codegen.h:70-74: the destructor of a File, of a copy or of the member of
\* a CodeGen that is destroyed.  fclose on a handle already closed is
\* undefined: the call is counted and the process goes on or ends.
DestroyFile ==
  /\ pc = "emit"
  /\ \E i \in 1..Len(emitter.files) :
       /\ emitter.files[i].live
       /\ \E h \in {emitter.files[i].data_} :
            /\ emitter' =
                 [emitter EXCEPT
                    !.files[i].live = FALSE,
                    !.closes = IF h = 0 THEN @
                               ELSE [@ EXCEPT ![h] = @ + 1]]
            /\ IF h # 0 /\ emitter.closes[h] > 0
               THEN pc' \in {"emit", "abort"}
               ELSE pc' = pc
  /\ UNCHANGED <<src, ndebug, parser, top_decls>>

\* codegen.h:78-82: Write asserts data_ and prints to it.  Printing to
\* nullptr when the assert is compiled out, or to a closed handle, is
\* undefined: the process goes on or ends.
WriteFile ==
  /\ pc = "emit"
  /\ \E i \in 1..Len(emitter.files) :
       /\ emitter.files[i].live
       /\ \E h \in {emitter.files[i].data_} :
            IF h = 0
            THEN /\ pc' \in (IF ndebug THEN {"emit", "abort"} ELSE {"abort"})
                 /\ UNCHANGED emitter
            ELSE IF emitter.closes[h] = 0
            THEN /\ emitter' = [emitter EXCEPT !.written = @ \cup {h}]
                 /\ pc' = pc
            ELSE /\ emitter' = [emitter EXCEPT !.late = TRUE]
                 /\ pc' \in {"emit", "abort"}
  /\ UNCHANGED <<src, ndebug, parser, top_decls>>

EmitterNext ==
  \/ NewCodeGen
  \/ GetFile
  \/ DestroyFile
  \/ WriteFile

EmitterSpec ==
  EmitterInit /\ [][EmitterNext]_vars

(***************************************************************************)
(* Reading the AST.                                                        *)
(***************************************************************************)
Nodes ==
  1..Len(parser.arena)

Node(h) ==
  parser.arena[h]

\* The owned children of a node.
Children(h) ==
  ({Node(h).kids[i] : i \in 1..Len(Node(h).kids)} \ {0})
    \cup {Node(h).args[i] : i \in 1..Len(Node(h).args)}

\* An expression as text: literals by their lexeme, binary nodes as (l op r).
RECURSIVE Shape(_)
Shape(h) ==
  IF h \notin Nodes THEN "null"
  ELSE IF Node(h).cls = "BinaryExpr"
  THEN "(" \o Shape(Node(h).kids[1]) \o " " \o Node(h).op \o " "
           \o Shape(Node(h).kids[2]) \o ")"
  ELSE Node(h).name

Finished ==
  pc \in {"done", "abort", "hang"}

\* The expression of the only expression statement of the input.
TheExpr ==
  LET h == CHOOSE h \in Nodes : Node(h).cls = "ExprStatement"
  IN Node(h).kids[1]

IsExprInput(ops) ==
  src = InBody(ExprToks(ops) \o <<";">>)

\* The operators of the input, read as operand op operand ... ; in a body.
SrcOps ==
  [i \in 1..((Len(src) - 8) \div 2) |-> src[5 + 2 * i]]

\* The input is a chain of operators of the given lexemes.
IsChainOf(lexemes) ==
  /\ SrcOps # <<>>
  /\ Len(SrcOps) < Len(Operands)
  /\ \A i \in 1..Len(SrcOps) : SrcOps[i] \in lexemes
  /\ IsExprInput(SrcOps)

OpKind(lexeme) ==
  ConvertOpToKind(KindOf(lexeme))

Level(lexeme) ==
  GetBinOpPrecedence(KindOf(lexeme))

AssignLexemes ==
  {"=", "+="}

AssignKinds ==
  {"Equal", "PlusEqual", "MinusEqual", "MultiplyEqual", "DivideEqual"}

\* operand_i op_i ( ... ) nested to the right, from position i on.
RECURSIVE RightNest(_, _)
RightNest(ops, i) ==
  IF i > Len(ops) THEN Operands[i]
  ELSE "(" \o Operands[i] \o " " \o OpKind(ops[i]) \o " "
           \o RightNest(ops, i + 1) \o ")"

\* C1: assignment-level operators are right-associative: a chain of
\* assignment operators is accepted and nests to the right, a = b = c giving
\* Binary{Equal, a, Binary{Equal, b, c}}; the left operand of an assignment
\* is never itself an assignment.
C1_AssignmentRightAssoc ==
  /\ IsChainOf(AssignLexemes) =>
       /\ pc \notin {"abort", "hang"}
       /\ (pc = "done" => Shape(TheExpr) = RightNest(SrcOps, 1))
  /\ \A h \in Nodes :
       (Node(h).cls = "BinaryExpr" /\ Node(h).op \in AssignKinds) =>
         ~(Node(Node(h).kids[1]).cls = "BinaryExpr"
           /\ Node(Node(h).kids[1]).op \in AssignKinds)

C1_Witness ==
  /\ pc = "done"
  /\ IsExprInput(<<"=", "=">>)
  /\ Shape(TheExpr) = "(1 Equal (2 Equal 3))"

BinaryLexemes ==
  ExprOps \ {","}

\* The node that owns h as a child.
Parent(h) ==
  CHOOSE g \in Nodes : h \in Children(g)

\* The literal node of the i-th operand of the expression input.
OperandNode(i) ==
  CHOOSE h \in Nodes :
    Node(h).cls = "IntergerLiteral" /\ Node(h).name = Operands[i]

\* C2: an operator of a higher precedence level binds tighter than a
\* neighbouring operator of a lower level, whichever comes first: the operand
\* between two neighbouring operators of different levels is the direct
\* operand of the higher one; 1 + 2 * 3 is 1 + (2 * 3), 1 * 2 + 3 is
\* (1 * 2) + 3 and 1 < 2 == 3 is (1 < 2) == 3.
C2_HigherLevelBindsTighter ==
  /\ IsChainOf(BinaryLexemes) =>
       /\ pc \notin {"abort", "hang"}
       /\ (pc = "done" =>
             \A i \in 1..(Len(SrcOps) - 1) :
               LET g == Parent(OperandNode(i + 1))
               IN /\ (Level(SrcOps[i]) > Level(SrcOps[i + 1]) =>
                        /\ Node(g).op = OpKind(SrcOps[i])
                        /\ Node(g).kids[2] = OperandNode(i + 1))
                  /\ (Level(SrcOps[i]) < Level(SrcOps[i + 1]) =>
                        /\ Node(g).op = OpKind(SrcOps[i + 1])
                        /\ Node(g).kids[1] = OperandNode(i + 1)))
  /\ (pc = "done" /\ IsExprInput(<<"+", "*">>)) =>
       Shape(TheExpr) = "(1 Plus (2 Multiply 3))"
  /\ (pc = "done" /\ IsExprInput(<<"*", "+">>)) =>
       Shape(TheExpr) = "((1 Multiply 2) Plus 3)"
  /\ (pc = "done" /\ IsExprInput(<<"<", "==">>)) =>
       Shape(TheExpr) = "((1 Less 2) EqualEqual 3)"

C2_Witness ==
  /\ pc = "done"
  /\ IsExprInput(<<"+", "*">>)
  /\ Shape(TheExpr) = "(1 Plus (2 Multiply 3))"
  /\ Node(Parent(OperandNode(2))).op = "Multiply"

VarDecls ==
  {h \in Nodes : Node(h).cls = "VarDecl"}

\* The declarations returned so far, as a set of handles.
TopDecls ==
  {top_decls[i] : i \in 1..Len(top_decls)}

\* C3 (as claimed): typedef int T; T x; parses without a fatal error and
\* yields exactly one Var x whose type is the type bound to T, and no
\* declaration for T.
C3_TypedefThenDeclaration ==
  (src = <<"typedef", "int", "T", ";", "T", "x", ";">> /\ Finished) =>
    /\ pc = "done"
    /\ Len(top_decls) = 1
    /\ Node(top_decls[1]).cls = "VarDecl"
    /\ Node(top_decls[1]).name = "x"
    /\ Node(top_decls[1]).type = IntType

\* The initialiser of a Var as text, "null" for none.
InitOf(h) ==
  Shape(Node(h).kids[1])

\* C4 (as claimed): int x = 1, y, z = 3; is accepted and yields three Vars
\* with initialisers 1, null and 3.
C4_InitialiserPerDeclarator ==
  (src = DeclToks(<<TRUE, FALSE, TRUE>>) /\ Finished) =>
    /\ pc = "done"
    /\ Len(top_decls) = 3
    /\ InitOf(top_decls[1]) = "1"
    /\ InitOf(top_decls[2]) = "null"
    /\ InitOf(top_decls[3]) = "3"

\* C5 (as claimed): the AST is a tree: no node is the child of two parents,
\* so two Vars never reference the same initialiser node.
C5_AstIsTree ==
  \A g1, g2 \in Nodes :
    g1 # g2 => Children(g1) \cap Children(g2) = {}

FunctionDecls ==
  {h \in Nodes : Node(h).cls = "FunctionDecl"}

DeclRefs ==
  {h \in Nodes : Node(h).cls = "DeclRefExpr"}

\* C6 (as claimed): a function definition installs its declaration in the
\* enclosing scope: a lookup of the name finds it, a second definition of the
\* name is fatal, and a call of the function resolves to it.
C6_FunctionInstalled ==
  /\ pc = "loop" =>
       \A h \in TopDecls :
         Node(h).cls = "FunctionDecl" => Lookup(parser, Node(h).name) = h
  /\ \A f1, f2 \in FunctionDecls : f1 # f2 => Node(f1).name # Node(f2).name
  /\ (src = <<"int", "f", "(", ")", "{", "}", "int", "g", "(", ")", "{", "f",
              "(", ")", ";", "}">> /\ Finished) => pc = "done"

\* C7 (as claimed): each named parameter becomes a Var carrying the
\* parameter's name, and an identifier naming it in the body builds a
\* DeclRef to that Var with the parameter's type.
C7_ParamsNamedAndVisible ==
  /\ (src = <<"int", "f", "(", "int", "a", ")", "{", "}">> /\ pc = "done") =>
       \A f \in FunctionDecls :
         /\ Len(Node(f).args) = 1
         /\ Node(Node(f).args[1]).name = "a"
  /\ (src = <<"int", "f", "(", "int", "a", ")", "{", "return", "a", ";",
              "}">> /\ Finished) =>
       /\ pc = "done"
       /\ \E r \in DeclRefs :
            /\ Node(r).ref \in VarDecls
            /\ Node(Node(r).ref).name = "a"
            /\ Node(r).type = IntType

\* C8 (as claimed): a declared global or local variable is found by a later
\* identifier expression in the same or a nested scope, which builds a
\* DeclRef with the declaration's type instead of ending in a fatal error.
C8_LookupSeesDeclaration ==
  (/\ src \in {<<"int", "x", ";", "int", "g", "(", ")", "{", "return", "x",
                 ";", "}">>,
               <<"int", "g", "(", ")", "{", "int", "x", ";", "x", ";", "}">>,
               <<"int", "g", "(", ")", "{", "int", "x", ";", "{", "x", ";",
                 "}", "}">>}
   /\ Finished) =>
    /\ pc = "done"
    /\ \E r \in DeclRefs :
         /\ Node(r).ref \in VarDecls
         /\ Node(Node(r).ref).name = "x"
         /\ Node(r).type = Node(Node(r).ref).type

LogIdx ==
  1..Len(parser.log)

Event(i) ==
  parser.log[i]

Range(seq) ==
  {seq[i] : i \in 1..Len(seq)}

\* The scope that was innermost when event i happened.
ScopeOf(i) ==
  Event(i).open[Len(Event(i).open)]

\* Event j installs the name queried by event i, in a scope still open at i.
BindsFor(j, i) ==
  /\ j < i
  /\ Event(j).ev = "pushtype"
  /\ Event(j).name = Event(i).name
  /\ ScopeOf(j) \in Range(Event(i).open)

\* C9: a typedef name is a type-token in the scope it was installed in and in
\* the scopes nested in it while that scope is open, and no longer once that
\* scope has exited: an identifier is a type-token exactly when it was
\* installed in a scope that is open at the query.
C9_TypedefNameScoped ==
  \A i \in LogIdx :
    (Event(i).ev = "istype" /\ KindOf(Event(i).name) \notin TypeKeywords) =>
      (Event(i).res <=> \E j \in LogIdx : BindsFor(j, i))

C9_Witness ==
  \E j, i, k \in LogIdx :
    /\ j < i /\ i < k
    /\ Event(j).ev = "pushtype" /\ Event(j).name = "T"
    /\ Event(i).ev = "istype" /\ Event(i).name = "T" /\ Event(i).res
    /\ BindsFor(j, i) /\ ScopeOf(i) # ScopeOf(j)
    /\ Event(k).ev = "istype" /\ Event(k).name = "T" /\ ~Event(k).res
    /\ ScopeOf(j) \notin Range(Event(k).open)

StorageLexemes ==
  {"static", "extern", "inline", "_Thread_local"}

\* The tokens one ParseDeclSpec call consumed before it returned.
SpecTokens(s) ==
  {src[i] : i \in s.from..s.to}

\* C10 (as claimed): ParseDeclSpec never returns for a specifier list that
\* holds typedef together with extern, static, inline or _Thread_local, in
\* whichever order, and never returns a typedef DeclSpec carrying one of them.
C10_TypedefExclusive ==
  \A i \in 1..Len(parser.specs) :
    LET s == parser.specs[i]
    IN /\ ~("typedef" \in SpecTokens(s)
            /\ SpecTokens(s) \cap StorageLexemes # {})
       /\ ~(s.scs = "Typedef" /\ s.fs = "Inline")

(***************************************************************************)
(* C11: on a normal return of ParseTranslateUnit the scope stack is as     *)
(* deep as on entry (empty), between two top-level items only the file     *)
(* scope is open, and every enter of the file scope, a function or a       *)
(* compound statement has exactly one exit, the exits coming in            *)
(* last-in-first-out order.                                                *)
(***************************************************************************)
C11_ScopesBalanced ==
  LET enters == {i \in LogIdx : Event(i).ev = "enter"}
      exits == {i \in LogIdx : Event(i).ev = "exit"}
      ExitOf(i) == CHOOSE j \in exits : Event(j).sid = Event(i).sid
  IN /\ pc = "loop" => Len(parser.scopes) = 1
     /\ pc = "done" =>
          /\ parser.scopes = <<>>
          /\ \A i \in enters :
                Cardinality({j \in exits : Event(j).sid = Event(i).sid
                                            /\ j > i}) = 1
          /\ \A j \in exits :
                Cardinality({i \in enters : Event(i).sid = Event(j).sid}) = 1
          /\ \A a \in enters : \A b \in enters :
                (a < b /\ b < ExitOf(a)) => ExitOf(b) < ExitOf(a)

\* A finished parse that entered the file scope, a function and two
\* compound statements.
C11_Witness ==
  /\ pc = "done"
  /\ Cardinality({i \in LogIdx : Event(i).ev = "enter"}) >= 4
  /\ Cardinality({i \in LogIdx : Event(i).ev = "exit"}) >= 4

\* C12 (as claimed): in a parenthesised declarator, a pointer declarator in
\* parentheses followed by a suffix, the identifier inside the parentheses is
\* the declared name and the suffix after the closing parenthesis is applied
\* before the inner pointer: p is declared as pointer to array of int by an
\* array suffix, as pointer to function by a function suffix and as pointer
\* to int by no suffix, distinct from the unparenthesised array of pointer;
\* the parse is never fatal and the Var is never unnamed.
C12_ParenthesisedDeclarator ==
  LET Declares(type) ==
        /\ pc = "done"
        /\ Len(top_decls) = 1
        /\ Node(top_decls[1]).cls = "VarDecl"
        /\ Node(top_decls[1]).name = "p"
        /\ Node(top_decls[1]).type = type
  IN /\ (src = <<"int", "(", "*", "p", ")", "[", "10", "]", ";">> /\ Finished)
          => Declares(CreatePointerType(CreateArrayType(IntType)))
     /\ (src = <<"int", "(", "*", "p", ")", "(", ")", ";">> /\ Finished)
          => Declares(CreatePointerType(CreateFuncType(IntType)))
     /\ (src = <<"int", "(", "*", "p", ")", ";">> /\ Finished)
          => Declares(CreatePointerType(IntType))
     /\ (src = <<"int", "*", "p", "[", "10", "]", ";">> /\ Finished)
          => Declares(CreateArrayType(CreatePointerType(IntType)))

(***************************************************************************)
(* C13 (as claimed): each entry of a function type's parameter list is the *)
(* type resolved by that parameter's declarator, pointer prefixes          *)
(* included, an array adjusted to a pointer to its element and a function  *)
(* to a pointer to it; the entries are as many as the parameters of the    *)
(* source and in their order.                                              *)
(***************************************************************************)
C13_ParamTypesFromDeclarators ==
  LET FuncOf(params) ==
        /\ pc = "done"
        /\ Len(top_decls) = 1
        /\ Node(top_decls[1]).cls = "FunctionDecl"
        /\ Node(top_decls[1]).type = SetParams(CreateFuncType(IntType), params)
  IN /\ (src = <<"int", "f", "(", "int", "*", "p", ")", ";">> /\ Finished)
          => FuncOf(<<CreatePointerType(IntType)>>)
     /\ (src = <<"int", "f", "(", "char", "c", ",", "int", "*", "p", ")",
                 ";">> /\ Finished)
          => FuncOf(<<CharType, CreatePointerType(IntType)>>)
     /\ (src = <<"int", "f", "(", "int", "a", ",", "char", "b", ",", "long",
                 "c", ")", ";">> /\ Finished)
          => FuncOf(<<IntType, CharType, MkType("Long", FALSE, <<>>, "")>>)
     /\ (src = <<"int", "f", "(", "int", "a", "[", "]", ")", ";">>
         /\ Finished)
          => FuncOf(<<CreatePointerType(IntType)>>)
     /\ (src = <<"int", "f", "(", "int", "g", "(", ")", ")", ";">>
         /\ Finished)
          => FuncOf(<<CreatePointerType(CreateFuncType(IntType))>>)

(***************************************************************************)
(* C14 (as claimed): int a[]; parses without a fatal error to one Var a of *)
(* type array of int, the `[` being closed by `]`.                         *)
(***************************************************************************)
C14_EmptyArrayBracket ==
  (src = <<"int", "a", "[", "]", ";">> /\ Finished) =>
    /\ pc = "done"
    /\ Len(top_decls) = 1
    /\ Node(top_decls[1]).cls = "VarDecl"
    /\ Node(top_decls[1]).name = "a"
    /\ Node(top_decls[1]).type = CreateArrayType(IntType)

C16_PrefixOperatorsWrap ==
  LET UnaryKind == [op \in PrefixOps |->
                      CASE op = "*" -> "Deref"
                        [] op = "+" -> "Plus"
                        [] op = "-" -> "Minus"
                        [] op = "++" -> "PreIncrement"
                        [] op = "--" -> "PreDecrement"
                        [] op = "&" -> "AddressOf"]
  IN \A op \in PrefixOps :
       (src = InBody(<<op, "1", ";">>) /\ Finished) =>
         /\ pc = "done"
         /\ \E h \in Nodes :
              /\ Node(h).cls = "UnaryExpr"
              /\ Node(h).op = UnaryKind[op]
              /\ Node(Node(h).kids[1]).name = "1"

\* C17 (as claimed): GetBinOpPrecedence gives every operator token of the
\* precedence table its level, != at Equality, >> at Shift and > at
\* Relational among them, the levels increase strictly from Comma to
\* Multiplicative, and a token that is no binary operator gets a level below
\* Comma.
C17_PrecedenceTableComplete ==
  LET L == BinOpPreLevel
      SpecLevel(op) ==
        CASE op = "," -> L.Comma
          [] op \in {"=", "*=", "/=", "%=", "+=", "-=", "<<=", ">>=", "&=",
                     "^=", "|="} -> L.Assignment
          [] op = "?" -> L.Conditional
          [] op = "||" -> L.LogicalOr
          [] op = "&&" -> L.LogicalAnd
          [] op = "|" -> L.InclusiveOr
          [] op = "^" -> L.ExclusiveOr
          [] op = "&" -> L.And
          [] op \in {"==", "!="} -> L.Equality
          [] op \in {"<", ">", "<=", ">="} -> L.Relational
          [] op \in {"<<", ">>"} -> L.Shift
          [] op \in {"+", "-"} -> L.Additive
          [] op \in {"*", "/", "%"} -> L.Multiplicative
  IN /\ L.Comma < L.Assignment /\ L.Assignment < L.Conditional
     /\ L.Conditional < L.LogicalOr /\ L.LogicalOr < L.LogicalAnd
     /\ L.LogicalAnd < L.InclusiveOr /\ L.InclusiveOr < L.ExclusiveOr
     /\ L.ExclusiveOr < L.And /\ L.And < L.Equality
     /\ L.Equality < L.Relational /\ L.Relational < L.Shift
     /\ L.Shift < L.Additive /\ L.Additive < L.Multiplicative
     /\ Finished =>
          \A i \in 1..Len(src) :
            IF src[i] \in TableOps
            THEN GetBinOpPrecedence(KindOf(src[i])) = SpecLevel(src[i])
            ELSE GetBinOpPrecedence(KindOf(src[i])) < L.Comma

\* C18 (as claimed): one long gives long and two give long long, and a
\* specifier list outside the synthesis table is fatal: a third long, or
\* short together with long, never yields an accepted declaration.
C18_WidthOutsideTableFatal ==
  LET VarOf(k) ==
        /\ pc = "done"
        /\ Len(top_decls) = 1
        /\ Node(top_decls[1]).name = "x"
        /\ Node(top_decls[1]).type = MkType(k, FALSE, <<>>, "")
  IN /\ (src = <<"long", "x", ";">> /\ Finished) => VarOf("Long")
     /\ (src = <<"long", "long", "x", ";">> /\ Finished) => VarOf("LongLong")
     /\ src \in {<<"long", "long", "long", "x", ";">>,
                 <<"short", "long", "x", ";">>,
                 <<"long", "short", "x", ";">>,
                 <<"short", "double", "x", ";">>,
                 <<"long", "char", "x", ";">>}
          => /\ pc # "done"
             /\ top_decls = <<>>
             /\ Finished => pc = "abort"

\* C19 (as claimed): a for statement is for ( init cond [step] ) body with
\* an optional step and any statement as body: without a step it yields a
\* For node whose step is null, and with one the node carries init, cond,
\* step and body in that order.
C19_ForStatementForm ==
  LET ForNodes == {h \in Nodes : Node(h).cls = "ForStatement"}
      IsFor(h, stepped, body_cls) ==
        /\ Len(Node(h).kids) = 4
        /\ Node(Node(h).kids[1]).cls = "ExprStatement"
        /\ Node(Node(Node(h).kids[1]).kids[1]).name = "1"
        /\ Node(Node(h).kids[2]).cls = "ExprStatement"
        /\ Node(Node(Node(h).kids[2]).kids[1]).name = "2"
        /\ IF stepped THEN Node(Node(h).kids[3]).name = "3"
           ELSE Node(h).kids[3] = 0
        /\ Node(Node(h).kids[4]).cls = body_cls
      Yields(stepped, body_cls) ==
        /\ pc = "done"
        /\ \E h \in ForNodes : IsFor(h, stepped, body_cls)
  IN /\ (src = InBody(<<"for", "(", "1", ";", "2", ";", "3", ")", "{", "4",
                        ";", "}">>) /\ Finished)
          => Yields(TRUE, "CompoundStatement")
     /\ (src = InBody(<<"for", "(", "1", ";", "2", ";", ")", "{", "4", ";",
                        "}">>) /\ Finished)
          => Yields(FALSE, "CompoundStatement")
     /\ (src = InBody(<<"for", "(", "1", ";", "2", ";", "3", ")", "4", ";">>)
         /\ Finished)
          => Yields(TRUE, "ExprStatement")
     /\ (src = InBody(<<"for", "(", "1", ";", "2", ";", ")", "4", ";">>)
         /\ Finished)
          => Yields(FALSE, "ExprStatement")

\* C20: the lookahead protocol.  A NextToken on an empty cache calls the
\* lexer exactly once, stores that token in the cache and leaves the current
\* token unchanged; a ConsumeToken on a filled cache makes the cached token
\* current without calling the lexer and empties the cache; a ConsumeToken
\* on an empty cache calls the lexer exactly once and makes that token
\* current.
C20_LookaheadProtocol ==
  [][/\ (pc' = "peeked" /\ parser.cache_ = <<>>) =>
          /\ parser'.pos = parser.pos + 1
          /\ parser'.cache_ = <<LexAt(parser.pos + 1)>>
          /\ parser'.token_ = parser.token_
     /\ (pc' = "consumed" /\ parser.cache_ # <<>>) =>
          /\ parser'.pos = parser.pos
          /\ parser'.token_ = parser.cache_[1]
          /\ parser'.cache_ = <<>>
     /\ (pc' = "consumed" /\ parser.cache_ = <<>>) =>
          /\ parser'.pos = parser.pos + 1
          /\ parser'.token_ = LexAt(parser.pos + 1)
          /\ parser'.cache_ = <<>>]_vars

\* A peek on an empty cache has returned after an earlier consume: the
\* cache holds the token after the current one.
C20_Witness ==
  /\ pc = "peeked"
  /\ parser.pos >= 3
  /\ parser.token_ = LexAt(parser.pos - 1)
  /\ parser.cache_ = <<LexAt(parser.pos)>>


\* C22 (as claimed): on every finite token stream ParseTranslateUnit returns
\* or aborts with a fatal error; no helper loops for ever at Eof, SkipUntil
\* among them when its kind does not occur before Eof, as after return 0
\* with no semicolon behind it.
C22_TerminatesAtEof ==
  pc # "hang"

\* C23 (as claimed): operators of a level that is not right-associative
\* group to the left in every chain, also across a tighter operator:
\* 1 - 2 - 3 is (1 - 2) - 3 and 1 - 2 * 3 - 4 is (1 - (2 * 3)) - 4; the
\* right operand of such an operator is never an operator of the same or a
\* lower level.
C23_LeftGrouping ==
  LET LevelOf(h) ==
        Level(CHOOSE l \in BinaryLexemes : OpKind(l) = Node(h).op)
  IN /\ (pc = "done" /\ IsExprInput(<<"-", "-">>)) =>
          Shape(TheExpr) = "((1 Minus 2) Minus 3)"
     /\ (pc = "done" /\ IsExprInput(<<"-", "*", "-">>)) =>
          Shape(TheExpr) = "((1 Minus (2 Multiply 3)) Minus 4)"
     /\ (pc = "done" /\ IsChainOf(BinaryLexemes \ AssignLexemes)) =>
          \A h \in Nodes :
            (/\ Node(h).cls = "BinaryExpr"
             /\ Node(Node(h).kids[2]).cls = "BinaryExpr") =>
              LevelOf(Node(h).kids[2]) > LevelOf(h)

\* C26 (as claimed): for every operator token to which GetBinOpPrecedence
\* gives a level of Assignment or higher, ParseRhsOfBinaryExpr builds a
\* Binary node with the parsed lhs and rhs; none of them ends in a fatal
\* error after its right operand was parsed.
C26_EveryTableOperatorBuildsBinary ==
  \A op \in TableOps \ {"?"} :
    (/\ src = InBody(<<"1", op, "2", ";">>)
     /\ GetBinOpPrecedence(KindOf(op)) >= BinOpPreLevel.Assignment
     /\ Finished) =>
      /\ pc = "done"
      /\ \E h \in Nodes :
           /\ Node(h).cls = "BinaryExpr"
           /\ Node(h).op # ""
           /\ Node(Node(h).kids[1]).name = "1"
           /\ Node(Node(h).kids[2]).name = "2"

\* C29 (as claimed): a Call is built only on a DeclRef whose declaration is
\* a function and has that function's return type; a call applied to any
\* other callee ends in a fatal diagnostic and never dereferences a null
\* declaration.
C29_CallOnlyOnFunctionDeclRef ==
  /\ parser.err # "null dereference"
  /\ \A h \in Nodes :
       Node(h).cls = "CallExpr" =>
         /\ Node(Node(h).kids[1]).cls = "DeclRefExpr"
         /\ Node(Node(Node(h).kids[1]).ref).cls = "FunctionDecl"

\* C24 (as claimed): ParseDeclSpec consumes only type-tokens: every
\* identifier among the tokens it consumed is a name bound to a type by an
\* earlier typedef, and an unbound identifier behind a qualifier or a storage
\* class is left for the declarator, so that the specifiers of int const x
\* end at const.
C24_DeclSpecConsumesOnlyTypeTokens ==
  LET Bound(i) == \E j \in 2..(i - 1) :
                    src[j] = src[i] /\ "typedef" \in {src[k] : k \in 1..j}
  IN /\ \A n \in 1..Len(parser.specs) :
          \A i \in parser.specs[n].from..parser.specs[n].to :
            KindOf(src[i]) = "Identifier" => Bound(i)
     /\ (src = <<"int", "const", "x", ";">> /\ Len(parser.specs) > 0) =>
          parser.specs[1].to = 2

\* C25 (as claimed): an identifier bound to a type ends the specifier loop:
\* it is the last token ParseDeclSpec consumes, and the token behind it is
\* left for the declarator even if it is a typedef name or a type keyword.
C25_TypedefNameEndsSpecifiers ==
  LET Bound(i) == \E j \in 2..(i - 1) :
                    src[j] = src[i] /\ "typedef" \in {src[k] : k \in 1..j}
  IN \A n \in 1..Len(parser.specs) :
       \A i \in parser.specs[n].from..parser.specs[n].to :
         (KindOf(src[i]) = "Identifier" /\ Bound(i)) =>
           parser.specs[n].to = i

\* C27: in a compound statement an item is parsed as a declaration iff its
\* first token is a type-token and the token behind it is not a colon, and as
\* a statement otherwise, the items coming in source order; default followed
\* by a colon in a switch body is a default case and not a declaration, and
\* the body is closed by its own right brace.
C27_CompoundItemDispatch ==
  LET Alpha == {<<"int", "x", ";">>, <<"1", ";">>,
                <<"default", ":", "2", ";">>}
      Starts == SelectSeq([i \in 1..Len(src) |-> i],
                          LAMBDA i : /\ i >= 6 /\ i < Len(src)
                                     /\ (i = 6 \/ src[i - 1] = ";"))
      End(k) == IF k = Len(Starts) THEN Len(src) - 1 ELSE Starts[k + 1] - 1
      IsItems == /\ Len(src) >= 6
                 /\ src = InBody(SubSeq(src, 6, Len(src) - 1))
                 /\ Len(Starts) <= MaxItems
                 /\ \A k \in 1..Len(Starts) :
                      SubSeq(src, Starts[k], End(k)) \in Alpha
      Expected(i) ==
        IF src[i] \in {"int", "default"} /\ src[i + 1] # ":"
        THEN "DeclStatement"
        ELSE IF src[i] = "default" THEN "CaseStatement"
        ELSE "ExprStatement"
      Body == Node(Node(1).kids[1]).kids
  IN /\ (Finished /\ IsItems) =>
          /\ pc = "done"
          /\ CurrentToken(parser).kind = "Eof"
          /\ Len(Body) = Len(Starts)
          /\ \A k \in 1..Len(Body) :
               Node(Body[k]).cls = Expected(Starts[k])
     /\ (Finished /\ src = InBody(<<"switch", "(", "1", ")", "{", "default",
                                    ":", "2", ";", "}">>)) =>
          /\ pc = "done"
          /\ \E h \in Nodes :
               /\ Node(h).cls = "CaseStatement"
               /\ Node(h).op = "default"
               /\ Node(Node(h).kids[1]).cls = "ExprStatement"
          /\ \A h \in Nodes : Node(h).cls # "DeclStatement"

\* A finished body of a declaration, a default label and a statement.
C27_Witness ==
  /\ pc = "done"
  /\ src = InBody(<<"int", "x", ";", "default", ":", "2", ";", "1", ";">>)
  /\ Len(Node(Node(1).kids[1]).kids) = 3
  /\ Node(Node(Node(1).kids[1]).kids[1]).cls = "DeclStatement"
  /\ Node(Node(Node(1).kids[1]).kids[2]).cls = "CaseStatement"

C28_TryConsumeAndExpectFrame ==
  [][\A k \in {KindOf(src[i]) : i \in 1..Len(src)} :
       LET Advanced ==
             /\ parser'.cache_ = <<>>
             /\ parser'.st = "ok"
             /\ IF parser.cache_ # <<>>
                THEN parser'.token_ = parser.cache_[1]
                     /\ parser'.pos = parser.pos
                ELSE parser'.token_ = LexAt(parser.pos + 1)
                     /\ parser'.pos = parser.pos + 1
           Kept ==
             /\ parser'.token_ = parser.token_
             /\ parser'.cache_ = parser.cache_
             /\ parser'.pos = parser.pos
       IN /\ (pc' = "try " \o k \o " true") =>
               (parser.token_.kind = k /\ Advanced)
          /\ (pc' = "try " \o k \o " false") =>
               (parser.token_.kind # k /\ Kept /\ parser'.st = "ok")
          /\ (pc' = "expect " \o k) =>
               IF parser.token_.kind = k THEN Advanced
               ELSE Kept /\ parser'.st = "fatal"]_vars

\* A try_consume on another kind has returned false behind a peek, and the
\* cache still holds the peeked token.
C28_Witness ==
  /\ pc = "try Semi false"
  /\ parser.token_.kind = "Int"
  /\ parser.cache_ # <<>>
  /\ parser.pos = 2

\* C30 (as claimed): every handle opened by a File is closed exactly once,
\* whatever the CodeGen operations, GetFile among them: no two File objects
\* own the same open handle, no handle is closed twice or written after it
\* was closed, and once every File is destroyed each handle was closed once.
C30_HandleClosedOnce ==
  LET F == emitter.files
      Owns(i, h) == F[i].live /\ F[i].data_ = h
  IN /\ \A h \in 1..Len(emitter.closes) :
          /\ emitter.closes[h] <= 1
          /\ \A i, j \in 1..Len(F) :
               (Owns(i, h) /\ Owns(j, h) /\ emitter.closes[h] = 0) => i = j
          /\ (\A i \in 1..Len(F) : ~F[i].live) => emitter.closes[h] = 1
     /\ ~emitter.late

====
